---------------------------- MODULE Spec2Model ----------------------------
(***************************************************************************)
(* A model of the sparse_framework cluster node runtime.                   *)
(*                                                                         *)
(* Several state machines share this module, each with its own variables  *)
(* and its own specifications:                                             *)
(*   SpecCodec    the framing of SparseTransportProtocol                   *)
(*                (protocols.py: data_received, send_payload, send_file)   *)
(*   SpecMalformed  the same connection with object frames that are no     *)
(*                pickle (message_received, pickle.loads)                  *)
(*   SpecRuntime  SparseStream.emit, SparseRuntime.call_operator, the      *)
(*                operator input buffer, the task dispatcher and the QoS   *)
(*                monitor, run by the I/O loop thread and the worker       *)
(*                thread                                                   *)
(*   SpecSubscribers  the runtime with peers subscribing to a stream while *)
(*                it is emitted on                                         *)
(*   SpecStreams, SpecModules, SpecTuples                                  *)
(*                the multiplexed peer protocol between cluster nodes with *)
(*                the cluster orchestrator: the handshake with stream      *)
(*                migration and subscription and with connection loss,     *)
(*                module transfer, and the data tuples sent from a source  *)
(*                client to a sink client                                  *)
(*   SpecRing     the same protocol in a cluster of three fully connected  *)
(*                nodes, one stream announced, with fair delivery          *)
(*   SpecDeploy   create_deployment and deploy_pipelines on one node, and  *)
(*                the tuples flowing through the wiring they leave, with   *)
(*                the executor thread running execute_task beside the I/O  *)
(*                loop                                                     *)
(*   SpecEmit     the same with peers subscribed to the input stream and   *)
(*                with an operator whose output stream feeds a stream      *)
(*                that has a fork of its own                               *)
(*   SpecRedeploy deployments that are created again and the tuples the    *)
(*                I/O loop then buffers for their operators                *)
(*   SpecOddDeploy  the same for descriptors naming an unknown operator or *)
(*                an operator at the top level                             *)
(*   SpecConnect  deployments and StreamRouter.connect_to_operators on one *)
(*                node, and the tuples the I/O loop then buffers           *)
(*   SpecPublish  subscriptions and stream migration on one node, and the  *)
(*                frames an emit sends to each subscriber                  *)
(*   SpecDispatch module transfer with peers that also send objects of an  *)
(*                unknown op (MultiplexerProtocol.object_received)         *)
(*   SpecRepo     StreamRepository.get_stream                              *)
(* A specification leaves the variables of the other machines at their    *)
(* initial values.                                                         *)
(***************************************************************************)
EXTENDS Integers, Sequences, FiniteSets, TLC

VARIABLES
    \* ---- SparseTransportProtocol (receiver side of one connection) ----
    data_buffer,        \* self.data_buffer: the bytes held, a sequence of bytes
    receiving_data,     \* self.receiving_data
    data_type,          \* self.data_type: <<>> for None, else a 1-byte sequence
    data_size,          \* self.data_size
    \* ---- the connection the protocol is bound to, and its history ----
    wire,               \* bytes written by the sender and not yet read
    sent,               \* the frames the sender has written, in order
    delivered,          \* the message_received calls made, in order
    rx_count,           \* bytes handed to data_received so far
    rx_calls,           \* the byte count of each data_received call, in order
    rx_frames_before,   \* complete frames received before the last call
    rx_delivered_before,\* messages delivered before the last call
    transport_closed,   \* the transport was closed after data_received raised
    objects_received,   \* the object_received calls made, in order (history)
    codec_errors,       \* the exceptions raised while a read was handled (history)
    \* ---- streams, operators and the runtime of one node ----
    sequence_no,        \* SparseStream.sequence_no, per stream
    stream_operators,   \* SparseStream.operators: set of <<operator, output>>
    stream_streams,     \* SparseStream.streams: the chained streams
    use_batching,       \* StreamOperator.use_batching, per operator
    input_buffer,       \* SparseIOBuffer.input_buffer, per operator
    task_queue,         \* SparseRuntime.task_queue
    active_records,     \* OperatorRuntimeStatisticsService.active_records
    now,                \* the clock read by time()
    stack,              \* per thread: the emit calls in progress, innermost last
    worker,             \* the execute_task call of the worker thread
    dispatcher_pc,      \* where TaskDispatcher.start stands
    tuples_received,    \* data_tuple messages handled so far
    \* ---- history of the runtime ----
    emit_count,         \* per thread: emit calls started so far (numbers them)
    emits_done,         \* per stream: emit calls completed
    handed,             \* every (operator, source, sequence_no) given to buffer_input
    called,             \* per operator: the (source, sequence_no) passed to call
    completed_records,  \* the QoS records completed by result_received
    arrivals,           \* per operator: the inputs given to buffer_input, in order
    exec_log,           \* per execute_task call started: the inputs taken, the
                        \* calls of call and the callbacks invoked
    put_log,            \* the operators put on the task queue, in order
    \* ---- the cluster: nodes, their connections and repositories ----
    connected,          \* the connections made so far (initiator, acceptor)
    closed,             \* the clients that have closed their transport
    chan,               \* per direction <<from, to>>: the messages in flight
    cluster_connections,\* ClusterOrchestrator.cluster_connections, per node
    node_streams,       \* StreamRepository.streams, per node
    uuid_count,         \* uuid4() calls made so far
    apps,               \* ModuleRepository.apps, per node
    files,              \* per host: the archive stored at each zip path
    receiving_module_name, \* ModuleReceiverProtocol.receiving_module_name
    transferring_module,   \* ModuleSenderProtocol.transferring_module
    \* ---- history of the cluster ----
    stream_sources,     \* per node: (stream, peer) of each announcement received
    receipts,           \* the file_received calls: who sent, who was sent to
    rx_log,             \* per receiver: init_module_transfer and file events
    inits_sent,         \* per direction: init_module_transfer requests sent
    accepted_sent,      \* per direction: accepted replies sent
    files_sent,         \* per direction: file frames sent
    uploads,            \* module uploads started by clients
    transfers,          \* transfer_module calls made by nodes
    local_streams,      \* streams created by local get_stream calls
    lost,               \* the endpoints <<node, peer>> whose transport was lost
    source_stream,      \* the SparseStream of the source client, once initialized
    sync_log,           \* per add_cluster_connection: what existed, what was sent
    pushed,             \* tuples emitted by the source client
    tuples_sent,        \* data_tuple messages written by nodes
    sink_received,      \* the data tuples handed to the sink client, in order
    \* ---- deployments on node A: its runtime and the wiring of its streams ----
    runtime_operators,  \* SparseRuntime.operators: the operators placed
    place_log,          \* the place_operator calls made: name, operator returned
    operator_buffer,    \* per operator name: the inputs buffered for it
    deployments,        \* the deployments create_deployment has handled, each
                        \* with the number of emit calls made before it
    deploy_raised,      \* the last deploy_pipelines call ended with an exception
    warnings,           \* the warnings logged by deploy_pipelines
    \* ---- history of the deployments and of get_stream ----
    emitted,            \* per thread, the emit calls made: stream (by position)
                        \* and tuple
    results,            \* the operator results: operator, input, output stream
    router_tuples,      \* tuple_received calls made so far
    gets,               \* get_stream calls made by the repository's users
    last_get,           \* the last of them: arguments, repository before, result
    emit_events,        \* per thread, what each emit did, in order (history)
    emit_raised,        \* the exceptions that ended an emit, in order (history)
    subscriptions,      \* the subscriptions node A has made, in order (history)
    stream_protocols,   \* per stream of the runtime: SparseStream.protocols
    subscriber_log,     \* the steps of emit's loop over protocols (history)
    unknown_sent,       \* objects with an op of no sub-protocol written so far
    dispatch_log        \* the objects no sub-protocol handled (history)

varsCodec == <<data_buffer, receiving_data, data_type, data_size, wire, sent,
               delivered, rx_count, rx_calls, rx_frames_before,
               rx_delivered_before, transport_closed, objects_received,
               codec_errors>>

varsRuntime == <<sequence_no, stream_operators, stream_streams, use_batching,
                 input_buffer, task_queue, active_records, now, stack, worker,
                 dispatcher_pc, tuples_received, emit_count, emits_done,
                 handed, called, completed_records, arrivals,
                 exec_log, put_log>>

varsCluster == <<connected, closed, chan, cluster_connections, node_streams,
                 uuid_count, apps, files, receiving_module_name,
                 transferring_module, stream_sources, receipts, rx_log,
                 inits_sent, accepted_sent, files_sent, uploads, transfers,
                 local_streams, lost, source_stream, sync_log, pushed,
                 tuples_sent, sink_received>>

\* The state of the data path between clients and nodes.
tupleVars == <<lost, source_stream, pushed, tuples_sent, sink_received>>

\* The cluster state other than node A's stream repository.
clusterRest == <<connected, closed, chan, cluster_connections, apps, files,
                 receiving_module_name, transferring_module, stream_sources,
                 receipts, rx_log, inits_sent, accepted_sent, files_sent,
                 uploads, transfers, local_streams, sync_log, tupleVars>>

varsDeploy == <<runtime_operators, place_log, operator_buffer, deployments, deploy_raised,
                warnings, emitted, results, router_tuples, gets, last_get,
                emit_events, subscriptions, emit_raised>>

varsSubscribers == <<stream_protocols, subscriber_log>>

varsDispatch == <<unknown_sent, dispatch_log>>

vars == <<varsCodec, varsRuntime, varsCluster, varsDeploy, varsSubscribers,
          varsDispatch>>

\* What the actions of one machine leave alone: the other machines.
othersCodec == <<varsRuntime, varsCluster, varsDeploy, varsSubscribers,
                 varsDispatch>>
othersRuntime == <<varsCodec, varsCluster, varsDeploy, varsSubscribers,
                   varsDispatch>>
othersCluster == <<varsCodec, varsRuntime, varsDeploy, varsSubscribers,
                   varsDispatch>>
othersDeploy == <<varsCodec, varsRuntime, clusterRest, varsSubscribers,
                  varsDispatch>>
\* The cluster state other than node A's stream repository, the uuid4()
\* calls made and the transports.
clusterIdle == <<connected, closed, cluster_connections, apps, files,
                 receiving_module_name, transferring_module, stream_sources,
                 receipts, rx_log, inits_sent, accepted_sent, files_sent,
                 uploads, transfers, local_streams, sync_log, tupleVars>>
\* The QoS records and the clock, and the task queue with its dispatcher.
qosVars == <<active_records, completed_records, now>>
dispatchVars == <<task_queue, dispatcher_pc>>
\* What no step of an emit, of call_operator or of execute_task on node A
\* changes.
stepRest == <<varsCodec, sequence_no, stream_operators, stream_streams,
              use_batching, input_buffer, tuples_received, emit_count,
              emits_done, handed, called, arrivals, put_log,
              clusterIdle, uuid_count, runtime_operators, place_log,
              deployments, deploy_raised, warnings, gets, last_get,
              subscriptions, varsSubscribers, varsDispatch>>
\* What the dispatch of an object no sub-protocol knows leaves alone.
othersDispatch == <<varsCodec, varsRuntime, varsDeploy, varsSubscribers>>

-----------------------------------------------------------------------------
(***************************************************************************)
(* Generic helpers.                                                        *)
(***************************************************************************)
Min(a, b) == IF a < b THEN a ELSE b

Take(s, n) == SubSeq(s, 1, Min(n, Len(s)))

Drop(s, n) == SubSeq(s, Min(n, Len(s)) + 1, Len(s))

-----------------------------------------------------------------------------
(***************************************************************************)
(* Transport framing (protocols.py).                                       *)
(***************************************************************************)

\* Bounds of the codec model.
MaxFrames == 3
MaxReads == 3

\* The pickle opcodes NONE, BININT1 and STOP.
OpNone == 78
OpBinInt1 == 75
OpStop == 46

\* struct "!sQ": one type byte and an 8-byte big-endian unsigned length.
HeaderSize == 9
LengthBytes == 8
ByteBase == 256
TypeObject == 111
TypeFile == 102

\* The payloads the sender is given: pickled objects (the pickles of None
\* and of 1 in pickle protocols 0 and 1, b"N." and b"K\x01.") and files.
ObjectPayloads == { <<78, 46>>, <<75, 1, 46>> }
FilePayloads == { <<>>, <<67>> }
Frames == { [type |-> TypeObject, payload |-> p] : p \in ObjectPayloads }
             \cup { [type |-> TypeFile, payload |-> p] : p \in FilePayloads }

\* n as w big-endian bytes.
RECURSIVE BigEndian(_, _)
BigEndian(n, w) ==
    IF w = 0 THEN <<>>
    ELSE Append(BigEndian(n \div ByteBase, w - 1), n % ByteBase)

\* The unsigned integer a big-endian byte string stands for.
RECURSIVE FromBigEndian(_)
FromBigEndian(bs) ==
    IF bs = <<>> THEN 0
    ELSE FromBigEndian(SubSeq(bs, 1, Len(bs) - 1)) * ByteBase + bs[Len(bs)]

\* struct.pack("!sQ", type, size)
Pack(type, size) == <<type>> \o BigEndian(size, LengthBytes)

\* struct.unpack("!sQ", header) raises unless header holds exactly 9 bytes.
UnpackRaises(header) == Len(header) # HeaderSize

UnpackType(header) == <<header[1]>>

UnpackSize(header) == FromBigEndian(SubSeq(header, 2, HeaderSize))

\* bytes.decode() of the one-byte type tag raises UnicodeDecodeError for a
\* byte that is no UTF-8 text: 0x80 and above.
DecodeRaises(t) == t[1] >= 128

\* bytes.decode() of the one-byte type tag: the one-character string, "?"
\* standing for every character other than o and f.
DecodeType(t) ==
    IF DecodeRaises(t) THEN "UnicodeDecodeError"
    ELSE IF t = <<TypeObject>> THEN "o"
    ELSE IF t = <<TypeFile>> THEN "f"
    ELSE "?"

\* What send_payload / send_file put on the wire for one frame.
EncodeFrame(f) == Pack(f.type, Len(f.payload)) \o f.payload

\* The message message_received is expected to get for a frame.
MessageOf(f) == [type |-> DecodeType(<<f.type>>), payload |-> f.payload]

RECURSIVE MessagesOf(_)
MessagesOf(fs) ==
    IF fs = <<>> THEN <<>> ELSE <<MessageOf(Head(fs))>> \o MessagesOf(Tail(fs))

\* How many of the frames fs lie wholly within the first n bytes of the stream.
RECURSIVE FramesCompleteBy(_, _)
FramesCompleteBy(fs, n) ==
    IF fs = <<>> \/ Len(EncodeFrame(Head(fs))) > n THEN 0
    ELSE 1 + FramesCompleteBy(Tail(fs), n - Len(EncodeFrame(Head(fs))))

CodecInit ==
    /\ data_buffer = <<>>
    /\ receiving_data = FALSE
    /\ data_type = <<>>
    /\ data_size = 0
    /\ wire = <<>>
    /\ sent = <<>>
    /\ delivered = <<>>
    /\ rx_count = 0
    /\ rx_calls = <<>>
    /\ rx_frames_before = 0
    /\ rx_delivered_before = 0
    /\ transport_closed = FALSE
    /\ objects_received = <<>>
    /\ codec_errors = <<>>

\* send_payload(payload): the header and the pickled payload are written.
SendPayload(p) ==
    /\ Len(sent) < MaxFrames
    /\ ~transport_closed
    /\ LET f == [type |-> TypeObject, payload |-> p] IN
         /\ wire' = wire \o EncodeFrame(f)
         /\ sent' = Append(sent, f)
    /\ UNCHANGED <<data_buffer, receiving_data, data_type, data_size, delivered,
                   rx_count, rx_calls, rx_frames_before, rx_delivered_before,
                   transport_closed, objects_received, codec_errors,
                   othersCodec>>

\* send_file(file_path): the header and the file's bytes are written.
SendFile(p) ==
    /\ Len(sent) < MaxFrames
    /\ ~transport_closed
    /\ LET f == [type |-> TypeFile, payload |-> p] IN
         /\ wire' = wire \o EncodeFrame(f)
         /\ sent' = Append(sent, f)
    /\ UNCHANGED <<data_buffer, receiving_data, data_type, data_size, delivered,
                   rx_count, rx_calls, rx_frames_before, rx_delivered_before,
                   transport_closed, objects_received, codec_errors,
                   othersCodec>>

\* The outcome of data_received(data) in the state (buf, recv, type, size):
\* the new fields, the messages handed to message_received and the exception
\* that left the call ("none", struct.error of unpack, UnicodeDecodeError of
\* data_type.decode()).  A raise leaves the fields as they were at the point
\* of the raise.
DataReceivedResult(buf, recv, type, size, data) ==
    IF ~recv /\ UnpackRaises(Take(data, HeaderSize))
    THEN \* receiving_data is set before unpack raises
         [buf |-> buf, recv |-> TRUE, type |-> type, size |-> size,
          out |-> <<>>, raised |-> "struct.error"]
    ELSE
      LET type1 == IF recv THEN type ELSE UnpackType(Take(data, HeaderSize))
          size1 == IF recv THEN size ELSE UnpackSize(Take(data, HeaderSize))
          payload == IF recv THEN data ELSE Drop(data, HeaderSize)
          buf1 == buf \o payload
      IN
      IF Len(buf1) >= size1
      THEN
        LET payload_bytes == Take(buf1, size1)
            rest == Drop(buf1, size1)
            msg == [type |-> DecodeType(type1), payload |-> payload_bytes]
        IN
        IF DecodeRaises(type1)
        THEN \* decode raises with the payload written and nothing cleared
             [buf |-> buf1, recv |-> TRUE, type |-> type1, size |-> size1,
              out |-> <<>>, raised |-> "UnicodeDecodeError"]
        ELSE IF Len(buf1) - size1 = 0
        THEN \* clear_buffer(), then message_received
             [buf |-> <<>>, recv |-> FALSE, type |-> <<>>, size |-> 0,
              out |-> <<msg>>, raised |-> "none"]
        ELSE IF UnpackRaises(Take(rest, HeaderSize))
        THEN \* the trailing bytes are shorter than a header: unpack raises
             \* before the buffer is replaced and before message_received
             [buf |-> buf1, recv |-> TRUE, type |-> type1, size |-> size1,
              out |-> <<>>, raised |-> "struct.error"]
        ELSE [buf |-> Drop(rest, HeaderSize), recv |-> TRUE,
              type |-> UnpackType(Take(rest, HeaderSize)),
              size |-> UnpackSize(Take(rest, HeaderSize)),
              out |-> <<msg>>, raised |-> "none"]
      ELSE [buf |-> buf1, recv |-> TRUE, type |-> type1, size |-> size1,
            out |-> <<>>, raised |-> "none"]

\* pickle.loads(data) for the opcodes N (None), K (one-byte integer) and
\* "." (STOP) with depth objects on the unpickler's stack: "object" when it
\* returns one, else the class of the exception it raises.
RECURSIVE Loads(_, _)
Loads(data, depth) ==
    IF data = <<>> THEN "EOFError"
    ELSE IF Head(data) = OpStop
    THEN IF depth > 0 THEN "object" ELSE "UnpicklingError"
    ELSE IF Head(data) = OpNone THEN Loads(Tail(data), depth + 1)
    ELSE IF Head(data) = OpBinInt1
    THEN IF Len(data) < 2 THEN "UnpicklingError"
         ELSE Loads(Drop(data, 2), depth + 1)
    ELSE "UnpicklingError"

\* message_received(payload_type, data): file_received for "f"; for "o"
\* object_received(pickle.loads(data)), where only pickle.UnpicklingError is
\* caught (and logged); any other exception of pickle.loads leaves
\* message_received.  The result: the object_received calls, the exceptions
\* and whether one escaped.
MessageReceivedResult(out) ==
    IF out = <<>> \/ out[1].type # "o"
    THEN [objects |-> <<>>, errors |-> <<>>, raised |-> FALSE]
    ELSE LET outcome == Loads(out[1].payload, 0) IN
         IF outcome = "object"
         THEN [objects |-> <<out[1].payload>>, errors |-> <<>>, raised |-> FALSE]
         ELSE [objects |-> <<>>,
               errors |-> <<[error |-> outcome, payload |-> out[1].payload,
                             caught |-> outcome = "UnpicklingError"]>>,
               raised |-> outcome # "UnpicklingError"]

\* The event loop reads the next n bytes of the connection and calls
\* data_received with them, which ends in message_received when a message is
\* complete.  An exception escaping data_received is a fatal error of the
\* transport, which closes the connection.
DataReceived(n) ==
    /\ ~transport_closed
    /\ Len(rx_calls) < MaxReads
    /\ n \in 1..Len(wire)
    /\ LET r == DataReceivedResult(data_buffer, receiving_data, data_type,
                                   data_size, Take(wire, n))
           m == MessageReceivedResult(r.out)
       IN /\ data_buffer' = r.buf
          /\ receiving_data' = r.recv
          /\ data_type' = r.type
          /\ data_size' = r.size
          /\ delivered' = delivered \o r.out
          /\ objects_received' = objects_received \o m.objects
          /\ codec_errors' = codec_errors \o m.errors \o
                (IF r.raised # "none"
                 THEN <<[error |-> r.raised, payload |-> <<>>,
                         caught |-> FALSE]>>
                 ELSE <<>>)
          /\ transport_closed' = (r.raised # "none" \/ m.raised)
    /\ wire' = Drop(wire, n)
    /\ rx_count' = rx_count + n
    /\ rx_calls' = Append(rx_calls, n)
    /\ rx_frames_before' = FramesCompleteBy(sent, rx_count)
    /\ rx_delivered_before' = Len(delivered)
    /\ UNCHANGED <<sent, othersCodec>>

CodecNext ==
    \/ \E p \in ObjectPayloads : SendPayload(p)
    \/ \E p \in FilePayloads : SendFile(p)
    \/ \E n \in 1..Len(wire) : DataReceived(n)

\* Object frames whose payload is no pickle: b"A" (no opcode), b"N" (the
\* pickle of None cut before STOP) and the empty payload.
MalformedPayloads == { <<65>>, <<78>>, <<>> }

\* A peer writes an object frame with a malformed payload.
SendMalformed(p) ==
    /\ Len(sent) < MaxFrames
    /\ ~transport_closed
    /\ LET f == [type |-> TypeObject, payload |-> p] IN
         /\ wire' = wire \o EncodeFrame(f)
         /\ sent' = Append(sent, f)
    /\ UNCHANGED <<data_buffer, receiving_data, data_type, data_size, delivered,
                   rx_count, rx_calls, rx_frames_before, rx_delivered_before,
                   transport_closed, objects_received, codec_errors,
                   othersCodec>>

\* A connection on which well-formed and malformed object frames arrive.
MalformedNext ==
    \/ \E p \in ObjectPayloads : SendPayload(p)
    \/ \E p \in MalformedPayloads : SendMalformed(p)
    \/ \E n \in 1..Len(wire) : DataReceived(n)

-----------------------------------------------------------------------------
(***************************************************************************)
(* Streams, the operator runtime, the task dispatcher and the QoS monitor  *)
(* of one node.  Two threads run the code: the I/O loop ("io"), which      *)
(* handles data_tuple messages and drives TaskDispatcher.start, and the    *)
(* executor thread ("worker"), which runs StreamOperator.execute_task.     *)
(* A step of a thread is one access to state the other thread can see.     *)
(***************************************************************************)

\* Bound of the runtime model: data_tuple messages handled by the I/O loop.
MaxTuples == 2

Threads == {"io", "worker"}
Streams == {"in", "s1", "s2", "out"}
Operators == {"O1", "O2"}

\* The streams for which peers send data_tuple messages to this node.
TupleSelectors == {"in", "s1"}

NoFork == <<"none", "none">>

\* The wiring left by deploy_pipelines for
\*   streams: [in, out]   pipelines: {in: {O1: {O2: [out]}}}
\* in -> O1 -> s1 -> O2 -> s2, with s2 chained to out.
DeployedOperators ==
    [s \in Streams |-> CASE s = "in" -> {<<"O1", "s1">>}
                         [] s = "s1" -> {<<"O2", "s2">>}
                         [] OTHER -> {}]

DeployedStreams ==
    [s \in Streams |-> IF s = "s2" THEN {"out"} ELSE {}]

IdleWorker == [pc |-> "idle", op |-> "none", batch |-> <<>>, result |-> <<>>,
               i |-> 0, get |-> "none", used |-> 0, rec |-> 0]

RuntimeInit ==
    /\ sequence_no = [s \in Streams |-> 0]
    /\ stream_operators = DeployedOperators
    /\ stream_streams = DeployedStreams
    /\ use_batching \in [Operators -> BOOLEAN]
    /\ input_buffer = [o \in Operators |-> <<>>]
    /\ task_queue = <<>>
    /\ active_records = {}
    /\ now = 1
    /\ stack = [t \in Threads |-> <<>>]
    /\ worker = IdleWorker
    /\ dispatcher_pc = "get"
    /\ tuples_received = 0
    /\ emit_count = [t \in Threads |-> 0]
    /\ emits_done = [s \in Streams |-> 0]
    /\ handed = {}
    /\ called = [o \in Operators |-> <<>>]
    /\ completed_records = {}
    /\ arrivals = [o \in Operators |-> <<>>]
    /\ exec_log = <<>>
    /\ put_log = <<>>
    /\ stream_protocols = [s \in Streams |-> {}]
    /\ subscriber_log = <<>>

\* ---- StreamOperator.call and the record of an execute_task call ----

\* The data handed to call: the input_batch list dispatch_batch builds.
BatchData(batch) == [k \in 1..Len(batch) |-> batch[k].data]

\* StreamOperator.call returns its input; with batching the k-th element of
\* the result is the k-th input, without it the result is the input itself.
CallResult(batch) == BatchData(batch)

\* The history of an execute_task call of operator op, from its start by
\* run_in_executor; the first step finds the inputs present in the buffer and
\* takes the inputs taken.
NewExecution(op) ==
    [op |-> op, swapped |-> FALSE, present |-> <<>>, taken |-> <<>>,
     calls |-> <<>>, callbacks |-> <<>>, done |-> FALSE, raised |-> FALSE,
     error |-> "none"]

\* The record once the buffer has been read.
Swapped(e, present, taken) ==
    [e EXCEPT !.swapped = TRUE, !.present = present, !.taken = taken]

\* ---- call stacks ----
Top(t) == stack[t][Len(stack[t])]

ReplaceTop(t, f) == [stack EXCEPT ![t] = [@ EXCEPT ![Len(@)] = f]]

Pop(t) == [stack EXCEPT ![t] = SubSeq(@, 1, Len(@) - 1)]

\* The frame of a call stream.emit(data_tuple); id names the call by its
\* thread and its number among the calls of the thread.
Frame(stream, data_tuple, id) ==
    [stream |-> stream, tuple |-> data_tuple, id |-> id, pc |-> "forks",
     forks |-> stream_operators[stream], chained |-> stream_streams[stream],
     cur |-> NoFork, seq |-> 0, index |-> 0, tmp |-> 0,
     left |-> {}, used |-> 0, rec |-> 0]

Push(t, stream, data_tuple) ==
    [stack EXCEPT ![t] =
        Append(@, Frame(stream, data_tuple, <<t, emit_count[t] + 1>>))]

\* ---- QoS records ----
\* A new OperatorRuntimeStatisticsRecord: id tells the objects apart, a
\* timestamp of 0 is None.
NewRecord(op, source, seq, id) ==
    [id |-> id, operator_id |-> op, source_stream_id |-> source,
     source_stream_sequence_no |-> seq, input_buffered_at |-> 0,
     input_dispatched_at |-> 0, result_received_at |-> 0]

\* The identity of the next record object: every record made so far is in
\* the active set or was removed from it by record_complete.
NextRecordId == Cardinality(active_records) + Cardinality(completed_records) + 1

Matching(op, source, seq) ==
    { r \in active_records : /\ r.operator_id = op
                             /\ r.source_stream_id = source
                             /\ r.source_stream_sequence_no = seq }

\* get_operator_runtime_statistics_record runs without a lock on both
\* threads, in steps: `for record in self.active_records` creates the set's
\* iterator, which remembers the size of the set; the loop ends with the
\* matching record, with none, or with RuntimeError when the size has
\* changed meanwhile; a record not found is then created and added.  The
\* caller holds the record returned and stamps it in a later step.
SetChanged(used) == Cardinality(active_records) # used

\* The records with the time written to a field of the record object id.
Stamped(records, id, field) ==
    { IF r.id = id THEN [r EXCEPT ![field] = now] ELSE r : r \in records }

\* self.<field> = time() on the record object id, which is in the active
\* set or, once record_complete has removed it, only held by its users.
StampRecord(id, field) ==
    /\ active_records' = Stamped(active_records, id, field)
    /\ completed_records' = Stamped(completed_records, id, field)
    /\ now' = now + 1

\* An exception leaves every call on thread t's stack; on the worker thread
\* it leaves execute_task.
Raises(t, error) ==
    /\ stack' = [stack EXCEPT ![t] = <<>>]
    /\ IF t = "worker"
       THEN /\ worker' = [worker EXCEPT !.pc = "raised", !.get = "none",
                                        !.rec = 0, !.used = 0]
            /\ exec_log' = [exec_log EXCEPT ![Len(exec_log)].raised = TRUE,
                                            ![Len(exec_log)].error = error]
       ELSE UNCHANGED <<worker, exec_log>>

\* record.queueing_time, evaluated for the log call of
\* operator_result_received: None unless the record was dispatched, else the
\* subtraction, which raises TypeError when input_buffered_at is None.
QueueingTimeRaises(r) ==
    r.input_dispatched_at # 0 /\ r.input_buffered_at = 0

\* ---- SparseStream.emit and SparseRuntime.call_operator, run by thread t ----

\* emit: the next (operator, output_stream) fork; call_operator reads
\* source.sequence_no.
CallOperatorRead(t) ==
    /\ stack[t] # <<>>
    /\ Top(t).pc = "forks"
    /\ \E f \in Top(t).forks :
         stack' = ReplaceTop(t, [Top(t) EXCEPT !.forks = @ \ {f},
                                               !.cur = f,
                                               !.seq = sequence_no[Top(t).stream],
                                               !.pc = "buffer"])
    /\ UNCHANGED <<sequence_no, stream_operators, stream_streams, use_batching,
                   input_buffer, task_queue, active_records, now, worker,
                   dispatcher_pc, tuples_received, emit_count, emits_done,
                   handed, called, completed_records,
                   arrivals, exec_log, put_log, othersRuntime>>

\* operator.buffer_input: append under the buffer's lock, return the index.
BufferInput(t) ==
    /\ stack[t] # <<>>
    /\ Top(t).pc = "buffer"
    /\ LET f == Top(t)
           op == f.cur[1]
       IN /\ input_buffer' = [input_buffer EXCEPT ![op] =
                 Append(@, [data |-> f.tuple, source |-> f.stream,
                            seq |-> f.seq, output |-> f.cur[2]])]
          /\ handed' = handed \cup {[op |-> op, source |-> f.stream,
                                     seq |-> f.seq, emit |-> f.id]}
          /\ arrivals' = [arrivals EXCEPT ![op] =
                 Append(@, [data |-> f.tuple, source |-> f.stream,
                            seq |-> f.seq, output |-> f.cur[2]])]
          /\ stack' = ReplaceTop(t, [f EXCEPT !.index = Len(input_buffer[op]),
                                              !.pc = "enqueue"])
    /\ UNCHANGED <<sequence_no, stream_operators, stream_streams, use_batching,
                   task_queue, active_records, now, worker, dispatcher_pc,
                   tuples_received, emit_count, emits_done, called,
                   completed_records,
                   exec_log, put_log, othersRuntime>>

\* call_operator queueing the operator for every input.
PutTaskAlways(t) ==
    /\ stack[t] # <<>>
    /\ Top(t).pc = "enqueue"
    /\ LET f == Top(t)
           op == f.cur[1]
       IN /\ task_queue' = Append(task_queue, op)
          /\ put_log' = Append(put_log, op)
          /\ stack' = ReplaceTop(t, [f EXCEPT !.pc = "qos"])
    /\ UNCHANGED <<sequence_no, stream_operators, stream_streams, use_batching,
                   input_buffer, active_records, now, worker, dispatcher_pc,
                   tuples_received, emit_count, emits_done, handed,
                   called, completed_records,
                   arrivals, exec_log, othersRuntime>>

\* call_operator: the operator is queued unless it batches and the input was
\* not the first of its buffer.
PutTask(t) ==
    /\ stack[t] # <<>>
    /\ Top(t).pc = "enqueue"
    /\ LET f == Top(t)
           op == f.cur[1]
       IN /\ task_queue' = IF ~use_batching[op] \/ f.index = 0
                           THEN Append(task_queue, op)
                           ELSE task_queue
          /\ put_log' = IF ~use_batching[op] \/ f.index = 0
                        THEN Append(put_log, op)
                        ELSE put_log
          /\ stack' = ReplaceTop(t, [f EXCEPT !.pc = "qos"])
    /\ UNCHANGED <<sequence_no, stream_operators, stream_streams, use_batching,
                   input_buffer, active_records, now, worker, dispatcher_pc,
                   tuples_received, emit_count, emits_done, handed,
                   called, completed_records,
                   arrivals, exec_log, othersRuntime>>

\* qos_monitor.operator_input_buffered: the loop over the active records
\* begins.
InputBufferedIter(t) ==
    /\ stack[t] # <<>>
    /\ Top(t).pc = "qos"
    /\ stack' = ReplaceTop(t, [Top(t) EXCEPT
                                 !.pc = "qos_iter",
                                 !.used = Cardinality(active_records)])
    /\ UNCHANGED <<sequence_no, stream_operators, stream_streams, use_batching,
                   input_buffer, task_queue, active_records, now, worker,
                   dispatcher_pc, tuples_received, emit_count, emits_done,
                   handed, called, completed_records,
                   arrivals, exec_log, put_log, othersRuntime>>

\* qos_monitor.operator_input_buffered: the loop of
\* get_operator_runtime_statistics_record ends and returns the record found.
OperatorInputBuffered(t) ==
    /\ stack[t] # <<>>
    /\ Top(t).pc = "qos_iter"
    /\ LET f == Top(t)
           m == Matching(f.cur[1], f.stream, f.seq)
       IN IF SetChanged(f.used)
          THEN Raises(t, "RuntimeError")
          ELSE IF m # {}
          THEN /\ \E r \in m :
                    stack' = ReplaceTop(t, [f EXCEPT !.pc = "qos_stamp",
                                                     !.rec = r.id, !.used = 0])
               /\ UNCHANGED <<worker, exec_log>>
          ELSE /\ stack' = ReplaceTop(t, [f EXCEPT !.pc = "qos_add", !.used = 0])
               /\ UNCHANGED <<worker, exec_log>>
    /\ UNCHANGED <<sequence_no, stream_operators, stream_streams, use_batching,
                   input_buffer, task_queue, active_records, now, dispatcher_pc,
                   tuples_received, emit_count, emits_done, handed,
                   called, completed_records,
                   arrivals, put_log, othersRuntime>>

\* get_operator_runtime_statistics_record: no record was found; a new one,
\* without a timestamp, is added to the set and returned.
InputBufferedAdd(t) ==
    /\ stack[t] # <<>>
    /\ Top(t).pc = "qos_add"
    /\ LET f == Top(t) IN
         /\ active_records' = active_records \cup
               {NewRecord(f.cur[1], f.stream, f.seq, NextRecordId)}
         /\ stack' = ReplaceTop(t, [f EXCEPT !.pc = "qos_stamp",
                                             !.rec = NextRecordId])
    /\ UNCHANGED <<sequence_no, stream_operators, stream_streams, use_batching,
                   input_buffer, task_queue, now, worker, dispatcher_pc,
                   tuples_received, emit_count, emits_done, handed,
                   called, completed_records,
                   arrivals, exec_log, put_log, othersRuntime>>

\* qos_monitor.operator_input_buffered: record.input_buffered() stamps the
\* record returned, whether or not it is still in the active set;
\* call_operator returns to emit's loop over the forks.
InputBufferedStamp(t) ==
    /\ stack[t] # <<>>
    /\ Top(t).pc = "qos_stamp"
    /\ StampRecord(Top(t).rec, "input_buffered_at")
    /\ stack' = ReplaceTop(t, [Top(t) EXCEPT !.pc = "forks", !.rec = 0])
    /\ UNCHANGED <<sequence_no, stream_operators, stream_streams, use_batching,
                   input_buffer, task_queue, worker, dispatcher_pc,
                   tuples_received, emit_count, emits_done, handed,
                   called,
                   arrivals, exec_log, put_log, othersRuntime>>

\* The connections (their stream_data_sender_protocol) that subscribe.
StreamSubscribers == {"B", "C"}

\* ---- SparseStream.protocols: subscribe on the I/O loop, the loop in emit ----

\* The runtime variables the subscriber steps leave alone.
runtimeRest == <<sequence_no, stream_operators, stream_streams, use_batching,
                 input_buffer, task_queue, active_records, now, dispatcher_pc,
                 tuples_received, emit_count, emits_done, handed,
                 called, completed_records, arrivals, put_log>>

\* SparseStream.subscribe, called from a connection's subscribe_received (or
\* migrate_stream) in a callback of the I/O loop: self.protocols.add(protocol).
StreamSubscribe(s, p) ==
    /\ stack["io"] = <<>>
    /\ stream_protocols' = [stream_protocols EXCEPT ![s] = @ \cup {p}]
    /\ UNCHANGED <<runtimeRest, stack, worker, exec_log, subscriber_log,
                   varsCodec, varsCluster, varsDeploy, varsDispatch>>

\* emit: `for protocol in self.protocols` creates the set's iterator, which
\* remembers the size of the set.
EmitProtocolsIter(t) ==
    /\ stack[t] # <<>>
    /\ Top(t).pc = "forks"
    /\ Top(t).forks = {}
    /\ stream_protocols[Top(t).stream] # {}
    /\ stack' = ReplaceTop(t, [Top(t) EXCEPT
                                 !.pc = "protocols",
                                 !.left = stream_protocols[Top(t).stream],
                                 !.used = Cardinality(stream_protocols[Top(t).stream])])
    /\ UNCHANGED <<runtimeRest, worker, exec_log, stream_protocols,
                   subscriber_log, varsCodec, varsCluster, varsDeploy,
                   varsDispatch>>

\* emit: one turn of the loop.  The iterator's next raises RuntimeError when
\* the size of the set has changed since the iterator was created, and the
\* exception leaves every emit on the thread's stack (on the worker thread:
\* the result callback and execute_task); otherwise the next protocol is sent
\* the tuple, or the loop ends.
EmitSendDataTuple(t) ==
    /\ stack[t] # <<>>
    /\ Top(t).pc = "protocols"
    /\ LET f == Top(t) IN
         IF Cardinality(stream_protocols[f.stream]) # f.used
         THEN /\ Raises(t, "RuntimeError")
              /\ subscriber_log' = Append(subscriber_log,
                    [ev |-> "changed", stream |-> f.stream, thread |-> t,
                     protocol |-> "none"])
         ELSE IF f.left # {}
         THEN /\ \E p \in f.left :
                   /\ stack' = ReplaceTop(t, [f EXCEPT !.left = @ \ {p}])
                   /\ subscriber_log' = Append(subscriber_log,
                         [ev |-> "send", stream |-> f.stream, thread |-> t,
                          protocol |-> p])
              /\ UNCHANGED <<worker, exec_log>>
         ELSE /\ stack' = ReplaceTop(t, [f EXCEPT !.pc = "chained"])
              /\ UNCHANGED <<worker, exec_log, subscriber_log>>
    /\ UNCHANGED <<runtimeRest, stream_protocols, varsCodec, varsCluster,
                   varsDeploy, varsDispatch>>

\* emit has left its loop over self.protocols: the loop has ended, or the
\* set was empty when the loop over the operators ended (the loop over an
\* empty set starts and ends without a call, within one step).
PastProtocols(f) ==
    \/ f.pc = "chained"
    \/ f.pc = "forks" /\ f.forks = {} /\ stream_protocols[f.stream] = {}

\* emit: after the forks and the subscribers, the next chained stream's emit
\* is called.
EmitChained(t) ==
    /\ stack[t] # <<>>
    /\ PastProtocols(Top(t))
    /\ \E c \in Top(t).chained :
         stack' = [stack EXCEPT ![t] =
                     Append([@ EXCEPT ![Len(@)] =
                                [Top(t) EXCEPT !.chained = @ \ {c},
                                               !.pc = "chained"]],
                            Frame(c, Top(t).tuple, <<t, emit_count[t] + 1>>))]
    /\ emit_count' = [emit_count EXCEPT ![t] = @ + 1]
    /\ UNCHANGED <<sequence_no, stream_operators, stream_streams, use_batching,
                   input_buffer, task_queue, active_records, now, worker,
                   dispatcher_pc, tuples_received, emits_done, 
                   handed, called, completed_records,
                   arrivals, exec_log, put_log, othersRuntime>>

\* emit: self.sequence_no += 1, the read of the field.
EmitIncRead(t) ==
    /\ stack[t] # <<>>
    /\ PastProtocols(Top(t))
    /\ Top(t).chained = {}
    /\ stack' = ReplaceTop(t, [Top(t) EXCEPT !.tmp = sequence_no[Top(t).stream],
                                             !.pc = "inc"])
    /\ UNCHANGED <<sequence_no, stream_operators, stream_streams, use_batching,
                   input_buffer, task_queue, active_records, now, worker,
                   dispatcher_pc, tuples_received, emit_count, emits_done,
                   handed, called, completed_records,
                   arrivals, exec_log, put_log, othersRuntime>>

\* emit: self.sequence_no += 1, the write of the field; emit returns.
EmitIncWrite(t) ==
    /\ stack[t] # <<>>
    /\ Top(t).pc = "inc"
    /\ LET f == Top(t) IN
         /\ sequence_no' = [sequence_no EXCEPT ![f.stream] = f.tmp + 1]
         /\ emits_done' = [emits_done EXCEPT ![f.stream] = @ + 1]
    /\ stack' = Pop(t)
    /\ UNCHANGED <<stream_operators, stream_streams, use_batching,
                   input_buffer, task_queue, active_records, now, worker,
                   dispatcher_pc, tuples_received, emit_count, handed, called,
                   completed_records,
                   arrivals, exec_log, put_log, othersRuntime>>

\* ---- the I/O loop ----

\* StreamRouter.tuple_received(selector, tuple) for a data_tuple message: the
\* stream matching the selector emits the tuple.
TupleReceived(selector) ==
    /\ stack["io"] = <<>>
    /\ tuples_received < MaxTuples
    /\ \E s \in Streams :
         /\ s = selector
         /\ stack' = Push("io", s, tuples_received + 1)
    /\ emit_count' = [emit_count EXCEPT !["io"] = @ + 1]
    /\ tuples_received' = tuples_received + 1
    /\ UNCHANGED <<sequence_no, stream_operators, stream_streams, use_batching,
                   input_buffer, task_queue, active_records, now, worker,
                   dispatcher_pc, emits_done, handed, called,
                   completed_records,
                   arrivals, exec_log, put_log, othersRuntime>>

\* TaskDispatcher.start handing the task to the executor without awaiting its
\* end.
DispatchTaskNoAwait ==
    /\ stack["io"] = <<>>
    /\ task_queue # <<>>
    /\ worker' = [IdleWorker EXCEPT !.pc = "dispatch", !.op = Head(task_queue)]
    /\ task_queue' = Tail(task_queue)
    /\ dispatcher_pc' = "get"
    /\ exec_log' = Append(exec_log, NewExecution(Head(task_queue)))
    /\ UNCHANGED <<sequence_no, stream_operators, stream_streams, use_batching,
                   input_buffer, active_records, now, stack, tuples_received,
                   emit_count, emits_done, handed, called,
                   completed_records,
                   arrivals, put_log, othersRuntime>>


\* TaskDispatcher.start: operator = await queue.get(), then
\* loop.run_in_executor(executor, operator.execute_task).
DispatchTask ==
    /\ stack["io"] = <<>>
    /\ dispatcher_pc = "get"
    /\ task_queue # <<>>
    /\ worker' = [IdleWorker EXCEPT !.pc = "dispatch", !.op = Head(task_queue)]
    /\ task_queue' = Tail(task_queue)
    /\ dispatcher_pc' = "await"
    /\ exec_log' = Append(exec_log, NewExecution(Head(task_queue)))
    /\ UNCHANGED <<sequence_no, stream_operators, stream_streams, use_batching,
                   input_buffer, active_records, now, stack, tuples_received,
                   emit_count, emits_done, handed, called,
                   completed_records,
                   arrivals, put_log, othersRuntime>>

\* TaskDispatcher.start: the awaited executor call has ended; task_done() and
\* the next turn of the loop, or the exception of execute_task leaves start.
TaskDone ==
    /\ stack["io"] = <<>>
    /\ dispatcher_pc = "await"
    /\ worker.pc \in {"finished", "raised"}
    /\ dispatcher_pc' = IF worker.pc = "raised" THEN "failed" ELSE "get"
    /\ worker' = IdleWorker
    /\ UNCHANGED <<sequence_no, stream_operators, stream_streams, use_batching,
                   input_buffer, task_queue, active_records, now, stack,
                   tuples_received, emit_count, emits_done, handed,
                   called, completed_records,
                   arrivals, exec_log, put_log, othersRuntime>>

\* ---- the worker thread: StreamOperator.execute_task ----

\* dispatch_batch taking one input only, as pop_input does.
DispatchBatchOneInput ==
    /\ worker.pc = "dispatch"
    /\ use_batching[worker.op]
    /\ worker' = [worker EXCEPT !.pc = "qos", !.i = 1,
                                !.batch = Take(input_buffer[worker.op], 1)]
    /\ input_buffer' = [input_buffer EXCEPT ![worker.op] = Drop(@, 1)]
    /\ exec_log' = [exec_log EXCEPT ![Len(exec_log)] =
                       Swapped(@, input_buffer[worker.op],
                               Take(input_buffer[worker.op], 1))]
    /\ UNCHANGED <<sequence_no, stream_operators, stream_streams, use_batching,
                   task_queue, active_records, now, stack, dispatcher_pc,
                   tuples_received, emit_count, emits_done, handed,
                   called, completed_records, arrivals, put_log, othersRuntime>>

\* memory_buffer.dispatch_batch(): the buffer is swapped for an empty one
\* under the lock.
DispatchBatch ==
    /\ worker.pc = "dispatch"
    /\ use_batching[worker.op]
    /\ worker' = [worker EXCEPT !.pc = "qos", !.i = 1,
                                !.batch = input_buffer[worker.op]]
    /\ input_buffer' = [input_buffer EXCEPT ![worker.op] = <<>>]
    /\ exec_log' = [exec_log EXCEPT ![Len(exec_log)] =
                       Swapped(@, input_buffer[worker.op], input_buffer[worker.op])]
    /\ UNCHANGED <<sequence_no, stream_operators, stream_streams, use_batching,
                   task_queue, active_records, now, stack, dispatcher_pc,
                   tuples_received, emit_count, emits_done, handed,
                   called, completed_records,
                   arrivals, put_log, othersRuntime>>

\* memory_buffer.pop_input(): input_buffer.pop(0) under the lock; an empty
\* list raises IndexError.
PopInput ==
    /\ worker.pc = "dispatch"
    /\ ~use_batching[worker.op]
    /\ IF input_buffer[worker.op] = <<>>
       THEN /\ worker' = [worker EXCEPT !.pc = "raised"]
            /\ exec_log' = [exec_log EXCEPT ![Len(exec_log)].raised = TRUE,
                                            ![Len(exec_log)].error = "IndexError"]
            /\ UNCHANGED input_buffer
       ELSE /\ worker' = [worker EXCEPT !.pc = "qos", !.i = 1,
                                        !.batch = <<Head(input_buffer[worker.op])>>]
            /\ input_buffer' = [input_buffer EXCEPT ![worker.op] = Tail(@)]
            /\ exec_log' = [exec_log EXCEPT ![Len(exec_log)] =
                               Swapped(@, input_buffer[worker.op],
                                       <<Head(input_buffer[worker.op])>>)]
    /\ UNCHANGED <<sequence_no, stream_operators, stream_streams, use_batching,
                   task_queue, active_records, now, stack, dispatcher_pc,
                   tuples_received, emit_count, emits_done, handed,
                   called, completed_records,
                   arrivals, put_log, othersRuntime>>

\* qos_monitor.operator_input_dispatched for the next input taken: the loop
\* over the active records begins.
InputDispatchedIter ==
    /\ worker.pc = "qos"
    /\ worker.i <= Len(worker.batch)
    /\ worker.get = "none"
    /\ worker' = [worker EXCEPT !.get = "iter",
                                !.used = Cardinality(active_records)]
    /\ UNCHANGED <<sequence_no, stream_operators, stream_streams, use_batching,
                   input_buffer, task_queue, active_records, now, stack,
                   dispatcher_pc, tuples_received, emit_count, emits_done,
                   handed, called, completed_records,
                   arrivals, exec_log, put_log, othersRuntime>>

\* qos_monitor.operator_input_dispatched: the loop of
\* get_operator_runtime_statistics_record ends and returns the record found.
OperatorInputDispatched ==
    /\ worker.pc = "qos"
    /\ worker.get = "iter"
    /\ LET x == worker.batch[worker.i]
           m == Matching(worker.op, x.source, x.seq)
       IN IF SetChanged(worker.used)
          THEN Raises("worker", "RuntimeError")
          ELSE IF m # {}
          THEN /\ \E r \in m :
                    worker' = [worker EXCEPT !.get = "stamp", !.rec = r.id,
                                             !.used = 0]
               /\ UNCHANGED <<stack, exec_log>>
          ELSE /\ worker' = [worker EXCEPT !.get = "add", !.used = 0]
               /\ UNCHANGED <<stack, exec_log>>
    /\ UNCHANGED <<sequence_no, stream_operators, stream_streams, use_batching,
                   input_buffer, task_queue, active_records, now, dispatcher_pc,
                   tuples_received, emit_count, emits_done, handed,
                   called, completed_records,
                   arrivals, put_log, othersRuntime>>

\* get_operator_runtime_statistics_record: no record was found; a new one,
\* without a timestamp, is added to the set and returned.
InputDispatchedAdd ==
    /\ worker.pc = "qos"
    /\ worker.get = "add"
    /\ LET x == worker.batch[worker.i] IN
         active_records' = active_records \cup
            {NewRecord(worker.op, x.source, x.seq, NextRecordId)}
    /\ worker' = [worker EXCEPT !.get = "stamp", !.rec = NextRecordId]
    /\ UNCHANGED <<sequence_no, stream_operators, stream_streams, use_batching,
                   input_buffer, task_queue, now, stack, dispatcher_pc,
                   tuples_received, emit_count, emits_done, handed,
                   called, completed_records,
                   arrivals, exec_log, put_log, othersRuntime>>

\* qos_monitor.operator_input_dispatched: record.input_dispatched() stamps
\* the record returned; the next input of the batch follows.
InputDispatchedStamp ==
    /\ worker.pc = "qos"
    /\ worker.get = "stamp"
    /\ StampRecord(worker.rec, "input_dispatched_at")
    /\ worker' = [worker EXCEPT !.i = @ + 1, !.get = "none", !.rec = 0]
    /\ UNCHANGED <<sequence_no, stream_operators, stream_streams, use_batching,
                   input_buffer, task_queue, stack, dispatcher_pc,
                   tuples_received, emit_count, emits_done, handed,
                   called,
                   arrivals, exec_log, put_log, othersRuntime>>

\* result = self.call(data): the inputs taken are passed to call, in order.
\* StreamOperator.execute_task when the application's call raises: the
\* exception leaves execute_task and is set on the executor's future.
CallRaises ==
    /\ worker.pc = "qos"
    /\ worker.i > Len(worker.batch)
    /\ worker' = [worker EXCEPT !.pc = "raised"]
    /\ exec_log' = [exec_log EXCEPT ![Len(exec_log)].raised = TRUE,
                                    ![Len(exec_log)].error = "call"]
    /\ UNCHANGED <<sequence_no, stream_operators, stream_streams, use_batching,
                   input_buffer, task_queue, active_records, now, stack,
                   dispatcher_pc, tuples_received, emit_count, emits_done,
                   handed, called, completed_records,
                   arrivals, put_log, othersRuntime>>

Call ==
    /\ worker.pc = "qos"
    /\ worker.i > Len(worker.batch)
    /\ called' = [called EXCEPT ![worker.op] =
                    @ \o [k \in 1..Len(worker.batch) |->
                            <<worker.batch[k].source, worker.batch[k].seq>>]]
    /\ worker' = [worker EXCEPT !.pc = "callbacks", !.i = 1,
                                !.result = CallResult(worker.batch)]
    /\ exec_log' = [exec_log EXCEPT ![Len(exec_log)].calls =
                       Append(@, BatchData(worker.batch))]
    /\ UNCHANGED <<sequence_no, stream_operators, stream_streams, use_batching,
                   input_buffer, task_queue, active_records, now, stack,
                   dispatcher_pc, tuples_received, emit_count, emits_done,
                   handed, completed_records,
                   arrivals, put_log, othersRuntime>>

\* The next callback: SparseRuntime.result_received calls
\* qos_monitor.operator_result_received; the loop over the active records
\* begins.
ResultReceivedIter ==
    /\ worker.pc = "callbacks"
    /\ worker.i <= Len(worker.batch)
    /\ stack["worker"] = <<>>
    /\ worker.get = "none"
    /\ worker' = [worker EXCEPT !.get = "iter",
                                !.used = Cardinality(active_records)]
    /\ UNCHANGED <<sequence_no, stream_operators, stream_streams, use_batching,
                   input_buffer, task_queue, active_records, now, stack,
                   dispatcher_pc, tuples_received, emit_count, emits_done,
                   handed, called, completed_records,
                   arrivals, exec_log, put_log, othersRuntime>>

\* qos_monitor.operator_result_received: the loop of
\* get_operator_runtime_statistics_record ends and returns the record found.
OperatorResultReceived ==
    /\ worker.pc = "callbacks"
    /\ worker.get = "iter"
    /\ LET x == worker.batch[worker.i]
           m == Matching(worker.op, x.source, x.seq)
       IN IF SetChanged(worker.used)
          THEN Raises("worker", "RuntimeError")
          ELSE IF m # {}
          THEN /\ \E r \in m :
                    worker' = [worker EXCEPT !.get = "stamp", !.rec = r.id,
                                             !.used = 0]
               /\ UNCHANGED <<stack, exec_log>>
          ELSE /\ worker' = [worker EXCEPT !.get = "add", !.used = 0]
               /\ UNCHANGED <<stack, exec_log>>
    /\ UNCHANGED <<sequence_no, stream_operators, stream_streams, use_batching,
                   input_buffer, task_queue, active_records, now, dispatcher_pc,
                   tuples_received, emit_count, emits_done, handed,
                   called, completed_records,
                   arrivals, put_log, othersRuntime>>

\* get_operator_runtime_statistics_record: no record was found; a new one,
\* without a timestamp, is added to the set and returned.
ResultReceivedAdd ==
    /\ worker.pc = "callbacks"
    /\ worker.get = "add"
    /\ LET x == worker.batch[worker.i] IN
         active_records' = active_records \cup
            {NewRecord(worker.op, x.source, x.seq, NextRecordId)}
    /\ worker' = [worker EXCEPT !.get = "stamp", !.rec = NextRecordId]
    /\ UNCHANGED <<sequence_no, stream_operators, stream_streams, use_batching,
                   input_buffer, task_queue, now, stack, dispatcher_pc,
                   tuples_received, emit_count, emits_done, handed,
                   called, completed_records,
                   arrivals, exec_log, put_log, othersRuntime>>

\* qos_monitor.operator_result_received: record.result_received() stamps the
\* record returned.
RecordResultReceived ==
    /\ worker.pc = "callbacks"
    /\ worker.get = "stamp"
    /\ StampRecord(worker.rec, "result_received_at")
    /\ worker' = [worker EXCEPT !.get = "remove"]
    /\ UNCHANGED <<sequence_no, stream_operators, stream_streams, use_batching,
                   input_buffer, task_queue, stack, dispatcher_pc,
                   tuples_received, emit_count, emits_done, handed,
                   called,
                   arrivals, exec_log, put_log, othersRuntime>>

\* statistics_service.record_complete(record): the record is removed from
\* the active set; the I/O loop may still hold it.
RecordComplete ==
    /\ worker.pc = "callbacks"
    /\ worker.get = "remove"
    /\ \E r \in active_records :
         /\ r.id = worker.rec
         /\ active_records' = active_records \ {r}
         /\ completed_records' = completed_records \cup {r}
    /\ worker' = [worker EXCEPT !.get = "log"]
    /\ UNCHANGED <<sequence_no, stream_operators, stream_streams, use_batching,
                   input_buffer, task_queue, now, stack, dispatcher_pc,
                   tuples_received, emit_count, emits_done, handed,
                   called,
                   arrivals, exec_log, put_log, othersRuntime>>

\* qos_monitor.operator_result_received: the log call reads
\* record.queueing_time and record.processing_latency of the record as it is
\* now; the callback goes on to output.emit unless queueing_time raises.
ResultReceivedLog ==
    /\ worker.pc = "callbacks"
    /\ worker.get = "log"
    /\ \E r \in completed_records :
         /\ r.id = worker.rec
         /\ IF QueueingTimeRaises(r)
            THEN Raises("worker", "TypeError")
            ELSE /\ worker' = [worker EXCEPT !.pc = "emit", !.get = "none",
                                             !.rec = 0]
                 /\ exec_log' = [exec_log EXCEPT ![Len(exec_log)].callbacks =
                                    Append(@, [input |-> worker.batch[worker.i],
                                               result |-> worker.result[worker.i]])]
                 /\ UNCHANGED stack
    /\ UNCHANGED <<sequence_no, stream_operators, stream_streams, use_batching,
                   input_buffer, task_queue, active_records, now, dispatcher_pc,
                   tuples_received, emit_count, emits_done, handed,
                   called, completed_records,
                   arrivals, put_log, othersRuntime>>

\* SparseRuntime.result_received: output.emit(output_tuple), on the worker
\* thread.
ResultEmit ==
    /\ worker.pc = "emit"
    /\ LET x == worker.batch[worker.i] IN
         stack' = Push("worker", x.output, worker.result[worker.i])
    /\ emit_count' = [emit_count EXCEPT !["worker"] = @ + 1]
    /\ worker' = [worker EXCEPT !.pc = "callbacks", !.i = @ + 1]
    /\ UNCHANGED <<sequence_no, stream_operators, stream_streams, use_batching,
                   input_buffer, task_queue, active_records, now,
                   dispatcher_pc, tuples_received, emits_done, 
                   handed, called, completed_records,
                   arrivals, exec_log, put_log, othersRuntime>>

\* execute_task returns once every callback has returned.
ExecuteTaskReturn ==
    /\ worker.pc = "callbacks"
    /\ worker.i > Len(worker.batch)
    /\ stack["worker"] = <<>>
    /\ worker' = [worker EXCEPT !.pc = "finished"]
    /\ exec_log' = [exec_log EXCEPT ![Len(exec_log)].done = TRUE]
    /\ UNCHANGED <<sequence_no, stream_operators, stream_streams, use_batching,
                   input_buffer, task_queue, active_records, now, stack,
                   dispatcher_pc, tuples_received, emit_count, emits_done,
                   handed, called, completed_records,
                   arrivals, put_log, othersRuntime>>

RuntimeNext ==
    \/ \E t \in Threads : CallOperatorRead(t)
    \/ \E t \in Threads : BufferInput(t)
    \/ \E t \in Threads : PutTask(t)
    \/ \E t \in Threads : InputBufferedIter(t)
    \/ \E t \in Threads : OperatorInputBuffered(t)
    \/ \E t \in Threads : InputBufferedAdd(t)
    \/ \E t \in Threads : InputBufferedStamp(t)
    \/ \E t \in Threads : EmitChained(t)
    \/ \E t \in Threads : EmitIncRead(t)
    \/ \E t \in Threads : EmitIncWrite(t)
    \/ \E selector \in TupleSelectors : TupleReceived(selector)
    \/ DispatchTask
    \/ TaskDone
    \/ DispatchBatch
    \/ PopInput
    \/ InputDispatchedIter
    \/ OperatorInputDispatched
    \/ InputDispatchedAdd
    \/ InputDispatchedStamp
    \/ Call
    \/ CallRaises
    \/ ResultReceivedIter
    \/ OperatorResultReceived
    \/ ResultReceivedAdd
    \/ RecordResultReceived
    \/ RecordComplete
    \/ ResultReceivedLog
    \/ ResultEmit
    \/ ExecuteTaskReturn


-----------------------------------------------------------------------------
(***************************************************************************)
(* The cluster.  Node A accepts the connections of nodes B and C; module   *)
(* uploader, source and sink clients connect to a node's endpoint.  Each   *)
(* connection carries, in each direction, a FIFO sequence of messages;     *)
(* a step handles the message at the head of one direction, as             *)
(* MultiplexerProtocol.object_received or file_received hands it to the    *)
(* sub-protocols.  A Python object is modelled by a value that names its   *)
(* class and its connection, so that `==`, `!=` and `in` between objects   *)
(* compare what the code compares.                                         *)
(***************************************************************************)
MaxUploads == 2
MaxUnknown == 1
MaxTransfers == 4
MaxLocalStreams == 1
MaxPushed == 1
MaxTupleSends == 6
MaxLost == 1
MaxQueued == 2

None == "None"

Nodes == {"A", "B", "C"}
Uploaders == {"U1", "U2"}
SourceClients == {"S"}
SinkClients == {"K"}

\* <<initiator, acceptor>> of each connection.
NodeLinks == { <<"B", "A">>, <<"C", "A">> }
ClientLinks == { <<"U1", "A">>, <<"U2", "A">>, <<"S", "A">>, <<"K", "B">> }
\* The three nodes fully connected: the links above and one between B and C.
RingLinks == NodeLinks \cup { <<"C", "B">> }
Links == RingLinks \cup ClientLinks
Dirs == Links \cup { <<l[2], l[1]>> : l \in Links }
PeersOf(x) == { d[2] : d \in { e \in Dirs : e[1] = x } }
NodeEndpoints == { d \in Dirs : d[1] \in Nodes }
SenderEndpoints == { d \in Dirs : d[1] \in Nodes \cup Uploaders }

ModuleNames == {"m1", "m2"}
\* ModuleUploaderProtocol(module_name, archive_path) of each upload.
ModuleOf(u) == IF u = "U1" THEN "m1" ELSE "m2"
\* f"/tmp/{name}.zip", named by its module name; None gives "/tmp/None.zip".
ZipPath(name) == name
Paths == { ZipPath(m) : m \in ModuleNames \cup {None} }
NoModule == [name |-> None, zip_path |-> None]
SparseModule(name, zip_path) == [name |-> name, zip_path |-> zip_path]

StreamAlias == "raw"
\* str(uuid.uuid4()): the k-th call returns UUIDs[k].
UUIDs == <<"u1", "u2", "u3", "u4", "u5", "u6", "u7", "u8", "u9", "u10",
          "u11", "u12", "u13", "u14", "u15", "u16">>

\* The protocol objects of node n's end of its connection with p.
ClusterProtocol(n, p) == <<"ClusterProtocol", n, p>>
StreamDataSenderProtocol(n, p) == <<"StreamDataSenderProtocol", n, p>>
ModuleReceiverProtocol(n, p) == <<"ModuleReceiverProtocol", n, p>>
PeerOf(protocol) == protocol[3]

\* Messages: an object frame (type "o") carries the dictionary handed to
\* send_payload, with the keys its sender gave it and no others; a file
\* frame (type "f") carries the bytes of the file.
ObjMsg(payload) == [type |-> "o", payload |-> payload]
FileMsg(data) == [type |-> "f", data |-> data]

\* `key in obj` for a received object; no object handler runs for a file.
HasKey(m, key) == m.type = "o" /\ key \in DOMAIN m.payload

\* obj[key]; every handler reads a key only behind a guard that the key is
\* there or from a message whose sender always gives it, and None is what
\* `obj[key] if key in obj.keys() else None` gives without it.
Key(m, key) == IF HasKey(m, key) THEN m.payload[key] ELSE None

ConnectDownstream == ObjMsg([op |-> "connect_downstream"])
ConnectDownstreamOk == ObjMsg([op |-> "connect_downstream", status |-> "success"])
InitModuleTransfer(name) ==
    ObjMsg([op |-> "init_module_transfer", module_name |-> name])
InitModuleTransferOk == ObjMsg([op |-> "init_module_transfer", status |-> "accepted"])
InitModuleTransferError == ObjMsg([op |-> "init_module_transfer", status |-> "rejected"])
TransferFileOk == ObjMsg([op |-> "transfer_file", status |-> "success"])
CreateConnectorStream(stream_id, stream_alias) ==
    ObjMsg([op |-> "create_connector_stream", stream_id |-> stream_id,
            stream_alias |-> stream_alias])
CreateConnectorStreamOk(stream_id, stream_alias) ==
    ObjMsg([op |-> "create_connector_stream", status |-> "success",
            stream_id |-> stream_id, stream_alias |-> stream_alias])
Subscribe(stream_alias) == ObjMsg([op |-> "subscribe", stream_alias |-> stream_alias])
SubscribeOk(stream_alias) ==
    ObjMsg([op |-> "subscribe", stream_alias |-> stream_alias, status |-> "success"])
DataTuple(stream_selector, data_tuple) ==
    ObjMsg([op |-> "data_tuple", stream_selector |-> stream_selector,
            tuple |-> data_tuple])

\* The source client before its stream is initialized, and the stream_id its
\* own uuid4() call gives the stream.
NoStream == [stream_id |-> None, stream_alias |-> None]
SourceUUID == "c1"
\* The tuples the source client's get_tuple returns, in order.
SourceTuples == <<"t1", "t2", "t3">>

ClusterInit ==
    /\ unknown_sent = 0
    /\ dispatch_log = <<>>
    /\ connected = {}
    /\ closed = {}
    /\ chan = [d \in Dirs |-> <<>>]
    /\ cluster_connections = [n \in Nodes |-> {}]
    /\ node_streams = [n \in Nodes |-> <<>>]
    /\ uuid_count = 0
    /\ apps = [n \in Nodes |-> <<>>]
    /\ files = [h \in Nodes \cup Uploaders |->
                  [path \in Paths |->
                      IF h \in Uploaders /\ path = ZipPath(ModuleOf(h))
                      THEN ModuleOf(h) ELSE None]]
    /\ receiving_module_name = [e \in NodeEndpoints |-> None]
    /\ transferring_module = [e \in SenderEndpoints |-> NoModule]
    /\ stream_sources = [n \in Nodes |-> {}]
    /\ receipts = {}
    /\ rx_log = [e \in NodeEndpoints |-> <<>>]
    /\ inits_sent = [d \in Dirs |-> 0]
    /\ accepted_sent = [d \in Dirs |-> 0]
    /\ files_sent = [d \in Dirs |-> 0]
    /\ uploads = 0
    /\ transfers = 0
    /\ local_streams = 0
    /\ lost = {}
    /\ source_stream = NoStream
    /\ sync_log = {}
    /\ pushed = 0
    /\ tuples_sent = 0
    /\ sink_received = <<>>

\* The message node or client x handles next on its connection with p.
HasMsg(x, p) ==
    /\ <<p, x>> \in Dirs
    /\ chan[<<p, x>>] # <<>>
    /\ <<x, p>> \notin lost
Msg(x, p) == Head(chan[<<p, x>>])

\* x has handled the head message from p and written out[q] to each peer q;
\* what is written to a transport that was lost is discarded.
Handled(x, p, out) ==
    [d \in Dirs |->
        IF d = <<p, x>> THEN Tail(chan[d])
        ELSE IF d[1] = x /\ d \notin lost THEN chan[d] \o out[d[2]]
        ELSE chan[d]]

NoOutput(x) == [q \in PeersOf(x) |-> <<>>]

\* ---- streams ----
\* stream_selector = stream_alias or stream_id
Selector(stream_id, stream_alias) ==
    IF stream_alias # None THEN stream_alias ELSE stream_id

\* SparseStream.matches_selector
MatchesSelector(stream, stream_selector) ==
    stream_selector \in {stream.stream_alias, stream.stream_id}

Matches(strs, stream_selector) ==
    { i \in 1..Len(strs) : MatchesSelector(strs[i], stream_selector) }

\* SparseStream(stream_id, stream_alias) after k calls of uuid4().
NewStream(stream_id, stream_alias, k) ==
    [stream_id |-> IF stream_id = None THEN UUIDs[k + 1] ELSE stream_id,
     stream_alias |-> stream_alias,
     sequence_no |-> 0,
     protocols |-> {},
     operators |-> {},
     streams |-> {}]

\* StreamRepository.get_stream: the streams it may return, by position; the
\* repository is a set, so any matching stream may be met first.  Position
\* Len(strs) + 1 is the stream it creates.
GetStreamIndexes(strs, stream_id, stream_alias) ==
    LET sel == Selector(stream_id, stream_alias)
    IN IF sel # None /\ Matches(strs, sel) # {}
       THEN Matches(strs, sel)
       ELSE {Len(strs) + 1}

StreamsAfterGet(strs, stream_id, stream_alias, i) ==
    IF i = Len(strs) + 1
    THEN Append(strs, NewStream(stream_id, stream_alias, uuid_count))
    ELSE strs

UuidsAfterGet(strs, stream_id, i) ==
    IF i = Len(strs) + 1 /\ stream_id = None THEN uuid_count + 1 ELSE uuid_count

\* The orders in which a loop can meet the members of a set of k objects.
Orders(k) ==
    { f \in [1..k -> 1..k] : \A i, j \in 1..k : i # j => f[i] # f[j] }

\* The peers distribute_module and distribute_stream send to: the
\* connections whose protocol is not the source object.
DistributeTargets(n, source) ==
    { PeerOf(c.protocol) : c \in { x \in cluster_connections[n] : x.protocol # source } }

\* ClusterConnection.migrate_stream of every stream in strs, in this order,
\* towards p: the announcements written.
Announcements(strs, order) ==
    [i \in 1..Len(order) |->
        CreateConnectorStream(strs[order[i]].stream_id, strs[order[i]].stream_alias)]

\* A handler that announces the streams and replies but records no
\* connection.
AddNoClusterConnection(n, p, direction, order, reply) ==
    /\ cluster_connections' = cluster_connections
    /\ node_streams' = node_streams
    /\ chan' = Handled(n, p, [q \in PeersOf(n) |->
                  IF q = p THEN Announcements(node_streams[n], order) \o reply
                  ELSE <<>>])
    /\ sync_log' = sync_log \cup
          {[node |-> n, peer |-> p,
            streams |-> Len(node_streams[n]),
            announced |-> Len(Announcements(node_streams[n], order)),
            modules |-> Len(apps[n])]}

\* ClusterOrchestrator.add_cluster_connection(protocol of p, direction) by the
\* handler of the head message, which then writes `reply`.
AddClusterConnection(n, p, direction, order, reply) ==
    /\ cluster_connections' =
          [cluster_connections EXCEPT ![n] =
              @ \cup {[protocol |-> ClusterProtocol(n, p), direction |-> direction]}]
    /\ node_streams' =
          [node_streams EXCEPT ![n] =
              [i \in 1..Len(node_streams[n]) |->
                  [node_streams[n][i] EXCEPT
                      !.protocols = @ \cup {StreamDataSenderProtocol(n, p)}]]]
    /\ chan' = Handled(n, p, [q \in PeersOf(n) |->
                  IF q = p THEN Announcements(node_streams[n], order) \o reply
                  ELSE <<>>])
    /\ sync_log' = sync_log \cup
          {[node |-> n, peer |-> p,
            streams |-> Len(node_streams[n]),
            announced |-> Len(Announcements(node_streams[n], order)),
            modules |-> Len(apps[n])]}

\* ClusterClientProtocol.connection_made: the node that dialled sends
\* connect_downstream.
ConnectionMade(l) ==
    /\ l \in RingLinks
    /\ l \notin connected
    /\ connected' = connected \cup {l}
    /\ chan' = [chan EXCEPT ![l] = Append(@, ConnectDownstream)]
    /\ UNCHANGED <<closed, cluster_connections, node_streams, uuid_count, apps,
                   files, receiving_module_name, transferring_module,
                   stream_sources, receipts, rx_log, inits_sent, accepted_sent,
                   files_sent, uploads, transfers, local_streams, sync_log, tupleVars,
                   othersCluster>>

\* ParentNodeProtocol.connect_downstream_received
ConnectDownstreamReceived(n, p) ==
    /\ n \in Nodes /\ HasMsg(n, p)
    /\ <<p, n>> \in Links
    /\ Key(Msg(n, p), "op") = "connect_downstream" /\ ~HasKey(Msg(n, p), "status")
    /\ \E order \in Orders(Len(node_streams[n])) :
          AddClusterConnection(n, p, "ingress", order, <<ConnectDownstreamOk>>)
    /\ UNCHANGED <<connected, closed, uuid_count, apps, files,
                   receiving_module_name, transferring_module, stream_sources,
                   receipts, rx_log, inits_sent, accepted_sent, files_sent,
                   uploads, transfers, local_streams, tupleVars,
                   othersCluster>>

\* ChildNodeProtocol.connect_downstream_ok_received
ConnectDownstreamOkReceived(n, p) ==
    /\ n \in Nodes /\ HasMsg(n, p)
    /\ <<n, p>> \in RingLinks
    /\ Key(Msg(n, p), "op") = "connect_downstream" /\ Key(Msg(n, p), "status") = "success"
    /\ \E order \in Orders(Len(node_streams[n])) :
          AddClusterConnection(n, p, "egress", order, <<>>)
    /\ UNCHANGED <<connected, closed, uuid_count, apps, files,
                   receiving_module_name, transferring_module, stream_sources,
                   receipts, rx_log, inits_sent, accepted_sent, files_sent,
                   uploads, transfers, local_streams, tupleVars,
                   othersCluster>>

\* A local StreamRepository.get_stream(stream_alias = alias) call, as made by
\* deploy_pipelines: the stream is created if no stream matches.
GetStream(n, alias) ==
    /\ n \in Nodes
    /\ local_streams < MaxLocalStreams
    /\ \E i \in GetStreamIndexes(node_streams[n], None, alias) :
          /\ node_streams' = [node_streams EXCEPT ![n] =
                                 StreamsAfterGet(@, None, alias, i)]
          /\ uuid_count' = UuidsAfterGet(node_streams[n], None, i)
    /\ local_streams' = local_streams + 1
    /\ UNCHANGED <<connected, closed, chan, cluster_connections, apps, files,
                   receiving_module_name, transferring_module, stream_sources,
                   receipts, rx_log, inits_sent, accepted_sent, files_sent,
                   uploads, transfers, sync_log, tupleVars,
                   othersCluster>>

\* SourceProtocol.connection_made: a source client announces its stream.
SourceConnectionMade(l) ==
    /\ l \in ClientLinks /\ l[1] \in SourceClients
    /\ l \notin connected
    /\ connected' = connected \cup {l}
    /\ chan' = [chan EXCEPT ![l] = Append(@, CreateConnectorStream(None, StreamAlias))]
    /\ UNCHANGED <<closed, cluster_connections, node_streams, uuid_count, apps,
                   files, receiving_module_name, transferring_module,
                   stream_sources, receipts, rx_log, inits_sent, accepted_sent,
                   files_sent, uploads, transfers, local_streams, sync_log, tupleVars,
                   othersCluster>>

\* SinkProtocol.connection_made: a sink client subscribes to a stream.
SinkConnectionMade(l) ==
    /\ l \in ClientLinks /\ l[1] \in SinkClients
    /\ l \notin connected
    /\ connected' = connected \cup {l}
    /\ chan' = [chan EXCEPT ![l] = Append(@, Subscribe(StreamAlias))]
    /\ UNCHANGED <<closed, cluster_connections, node_streams, uuid_count, apps,
                   files, receiving_module_name, transferring_module,
                   stream_sources, receipts, rx_log, inits_sent, accepted_sent,
                   files_sent, uploads, transfers, local_streams, sync_log, tupleVars,
                   othersCluster>>

\* StreamReceiverProtocol.object_received for a create_connector_stream
\* request: ClusterProtocol.create_connector_stream_received, that is
\* StreamRouter.create_connector_stream(self, ...) and
\* ClusterOrchestrator.distribute_stream(self, stream), then the reply.
CreateConnectorStreamReceived(n, p) ==
    /\ n \in Nodes /\ HasMsg(n, p)
    /\ Key(Msg(n, p), "op") = "create_connector_stream" /\ ~HasKey(Msg(n, p), "status")
    /\ LET m == Msg(n, p)
           source == ClusterProtocol(n, p)
           targets == DistributeTargets(n, source)
       IN \E i \in GetStreamIndexes(node_streams[n], Key(m, "stream_id"), Key(m, "stream_alias")) :
            LET strs == StreamsAfterGet(node_streams[n], Key(m, "stream_id"), Key(m, "stream_alias"), i)
                stream == strs[i]
                subscribed == { StreamDataSenderProtocol(n, q) : q \in targets }
            IN /\ node_streams' =
                     [node_streams EXCEPT ![n] =
                         [strs EXCEPT ![i].protocols =
                             (@ \ {source}) \cup subscribed]]
               /\ uuid_count' = UuidsAfterGet(node_streams[n], Key(m, "stream_id"), i)
               /\ stream_sources' = [stream_sources EXCEPT ![n] = @ \cup {<<i, p>>}]
               /\ chan' = Handled(n, p, [q \in PeersOf(n) |->
                     (IF q \in targets
                      THEN <<CreateConnectorStream(stream.stream_id, stream.stream_alias)>>
                      ELSE <<>>)
                     \o (IF q = p
                         THEN <<CreateConnectorStreamOk(Key(m, "stream_id"), Key(m, "stream_alias"))>>
                         ELSE <<>>)])
    /\ UNCHANGED <<connected, closed, cluster_connections, apps, files,
                   receiving_module_name, transferring_module, receipts, rx_log,
                   inits_sent, accepted_sent, files_sent, uploads, transfers,
                   local_streams, sync_log, tupleVars,
                   othersCluster>>

\* StreamMigratorProtocol.object_received for a create_connector_stream
\* reply: a ClusterProtocol has no callback for it.
CreateConnectorStreamOkReceived(n, p) ==
    /\ n \in Nodes /\ HasMsg(n, p)
    /\ Key(Msg(n, p), "op") = "create_connector_stream" /\ HasKey(Msg(n, p), "status")
    /\ chan' = Handled(n, p, NoOutput(n))
    /\ UNCHANGED <<connected, closed, cluster_connections, node_streams,
                   uuid_count, apps, files, receiving_module_name,
                   transferring_module, stream_sources, receipts, rx_log,
                   inits_sent, accepted_sent, files_sent, uploads, transfers,
                   local_streams, sync_log, tupleVars,
                   othersCluster>>

\* StreamPublishProtocol.subscribe_received: StreamRouter.subscribe and the
\* reply.
SubscribeReceived(n, p) ==
    /\ n \in Nodes /\ HasMsg(n, p)
    /\ Key(Msg(n, p), "op") = "subscribe" /\ ~HasKey(Msg(n, p), "status")
    /\ LET alias == Key(Msg(n, p), "stream_alias")
           found == Matches(node_streams[n], alias)
           indexes == IF found # {} THEN found
                      ELSE GetStreamIndexes(node_streams[n], None, alias)
       IN \E i \in indexes :
            LET strs == StreamsAfterGet(node_streams[n], None, alias, i)
            IN /\ node_streams' =
                     [node_streams EXCEPT ![n] =
                         [strs EXCEPT ![i].protocols =
                             @ \cup {StreamDataSenderProtocol(n, p)}]]
               /\ uuid_count' = UuidsAfterGet(node_streams[n], None, i)
               /\ chan' = Handled(n, p, [q \in PeersOf(n) |->
                     IF q = p THEN <<SubscribeOk(alias)>> ELSE <<>>])
    /\ UNCHANGED <<connected, closed, cluster_connections, apps, files,
                   receiving_module_name, transferring_module, stream_sources,
                   receipts, rx_log, inits_sent, accepted_sent, files_sent,
                   uploads, transfers, local_streams, sync_log, tupleVars,
                   othersCluster>>

\* ---- data tuples ----
\* SparseStream.__str__
StreamName(stream) == Selector(stream.stream_id, stream.stream_alias)

\* The node a client is connected to.
NodeOf(client) == (CHOOSE l \in ClientLinks : l[1] = client)[2]

\* SourceProtocol.create_connector_stream_ok_received: the source client
\* creates its own SparseStream from the reply and subscribes its data
\* protocol to it.
SourceStreamInitialized(s) ==
    /\ s \in SourceClients /\ HasMsg(s, NodeOf(s))
    /\ Key(Msg(s, NodeOf(s)), "op") = "create_connector_stream"
    /\ Key(Msg(s, NodeOf(s)), "status") = "success"
    /\ source_stream' =
          [stream_id |-> IF Key(Msg(s, NodeOf(s)), "stream_id") = None THEN SourceUUID
                         ELSE Key(Msg(s, NodeOf(s)), "stream_id"),
           stream_alias |-> Key(Msg(s, NodeOf(s)), "stream_alias")]
    /\ chan' = Handled(s, NodeOf(s), NoOutput(s))
    /\ UNCHANGED <<connected, closed, cluster_connections, node_streams,
                   uuid_count, apps, files, receiving_module_name,
                   transferring_module, stream_sources, receipts, rx_log,
                   inits_sent, accepted_sent, files_sent, uploads, transfers,
                   local_streams, lost, sync_log, pushed, tuples_sent,
                   sink_received, othersCluster>>

\* SparseSource.start_stream: self.stream.emit(tuple), which sends one
\* data_tuple named by str(stream) through the source's data protocol.
SourceEmit(s) ==
    /\ s \in SourceClients
    /\ source_stream # NoStream
    /\ pushed < MaxPushed
    /\ chan' = [chan EXCEPT ![<<s, NodeOf(s)>>] =
                   Append(@, DataTuple(StreamName(source_stream),
                                    SourceTuples[pushed + 1]))]
    /\ pushed' = pushed + 1
    /\ UNCHANGED <<connected, closed, cluster_connections, node_streams,
                   uuid_count, apps, files, receiving_module_name,
                   transferring_module, stream_sources, receipts, rx_log,
                   inits_sent, accepted_sent, files_sent, uploads, transfers,
                   local_streams, lost, source_stream, sync_log, tuples_sent,
                   sink_received, othersCluster>>

\* StreamDataReceiverProtocol.object_received: StreamRouter.tuple_received
\* emits the tuple on a stream that matches the selector, which writes one
\* data_tuple per subscribed protocol; with no matching stream the tuple is
\* dropped with a warning.
DataTupleReceived(n, p) ==
    /\ n \in Nodes /\ HasMsg(n, p)
    /\ Key(Msg(n, p), "op") = "data_tuple"
    /\ LET m == Msg(n, p)
           found == Matches(node_streams[n], Key(m, "stream_selector"))
       IN IF found = {}
          THEN /\ chan' = Handled(n, p, NoOutput(n))
               /\ UNCHANGED <<node_streams, tuples_sent>>
          ELSE \E i \in found :
                 LET stream == node_streams[n][i]
                     subscribers == { PeerOf(protocol) : protocol \in stream.protocols }
                 IN /\ tuples_sent + Cardinality(stream.protocols) <= MaxTupleSends
                    /\ chan' = Handled(n, p, [q \in PeersOf(n) |->
                          IF q \in subscribers
                          THEN <<DataTuple(StreamName(stream), Key(m, "tuple"))>>
                          ELSE <<>>])
                    /\ node_streams' = [node_streams EXCEPT
                          ![n][i].sequence_no = @ + 1]
                    /\ tuples_sent' = tuples_sent + Cardinality(stream.protocols)
    /\ UNCHANGED <<connected, closed, cluster_connections, uuid_count, apps,
                   files, receiving_module_name, transferring_module,
                   stream_sources, receipts, rx_log, inits_sent, accepted_sent,
                   files_sent, uploads, transfers, local_streams, lost,
                   source_stream, sync_log, pushed, sink_received,
                   othersCluster>>

\* SinkProtocol: a subscribe reply is logged; a data_tuple is handed to
\* on_tuple_received.
SinkObjectReceived(k) ==
    /\ k \in SinkClients /\ HasMsg(k, NodeOf(k))
    /\ sink_received' =
          IF Key(Msg(k, NodeOf(k)), "op") = "data_tuple"
          THEN Append(sink_received,
                      [stream_selector |-> Key(Msg(k, NodeOf(k)), "stream_selector"),
                       tuple |-> Key(Msg(k, NodeOf(k)), "tuple")])
          ELSE sink_received
    /\ chan' = Handled(k, NodeOf(k), NoOutput(k))
    /\ UNCHANGED <<connected, closed, cluster_connections, node_streams,
                   uuid_count, apps, files, receiving_module_name,
                   transferring_module, stream_sources, receipts, rx_log,
                   inits_sent, accepted_sent, files_sent, uploads, transfers,
                   local_streams, lost, source_stream, sync_log, pushed,
                   tuples_sent, othersCluster>>

\* ---- connection loss ----
\* The transport of node n's connection with p.
Transport(n, p) == <<"Transport", n, p>>

\* ClusterOrchestrator.remove_cluster_connection(protocol): the first
\* connection whose protocol equals the argument is discarded.
RemoveClusterConnection(connections, protocol) ==
    IF \E c \in connections : c.protocol = protocol
    THEN connections \ {CHOOSE c \in connections : c.protocol = protocol}
    ELSE connections

\* ClusterProtocol.connection_lost:
\* remove_cluster_connection(self.transport).
ConnectionLost(n, p) ==
    /\ <<n, p>> \in NodeEndpoints
    /\ <<n, p>> \in connected \/ <<p, n>> \in connected
    /\ <<n, p>> \notin lost
    /\ Cardinality(lost) < MaxLost
    /\ lost' = lost \cup {<<n, p>>}
    /\ cluster_connections' = [cluster_connections EXCEPT ![n] =
          RemoveClusterConnection(@, Transport(n, p))]
    /\ UNCHANGED <<connected, closed, chan, node_streams, uuid_count, apps,
                   files, receiving_module_name, transferring_module,
                   stream_sources, receipts, rx_log, inits_sent, accepted_sent,
                   files_sent, uploads, transfers, local_streams,
                   source_stream, sync_log, pushed, tuples_sent, sink_received,
                   othersCluster>>

\* ---- module transfer ----
\* ModuleUploaderProtocol.connection_made: transfer_module of the client's
\* module, that is the init_module_transfer request.
UploaderConnectionMade(l) ==
    /\ l \in ClientLinks /\ l[1] \in Uploaders
    /\ l \notin connected
    /\ uploads < MaxUploads
    /\ connected' = connected \cup {l}
    /\ transferring_module' =
          [transferring_module EXCEPT ![l] =
              SparseModule(ModuleOf(l[1]), ZipPath(ModuleOf(l[1])))]
    /\ chan' = [chan EXCEPT ![l] = Append(@, InitModuleTransfer(ModuleOf(l[1])))]
    /\ inits_sent' = [inits_sent EXCEPT ![l] = @ + 1]
    /\ uploads' = uploads + 1
    /\ UNCHANGED <<closed, cluster_connections, node_streams, uuid_count, apps,
                   files, receiving_module_name, stream_sources, receipts,
                   rx_log, accepted_sent, files_sent, transfers, local_streams, sync_log, tupleVars,
                   othersCluster>>

\* A receiver that takes every request.
ReceiverAlwaysIdle(name) == TRUE

\* ModuleReceiverProtocol.init_module_transfer_received: the test
\* `self.receiving_module_name is None`.
ReceiverIdle(name) == name = None

\* ModuleReceiverProtocol.init_module_transfer_received
InitModuleTransferReceived(n, p) ==
    /\ n \in Nodes /\ HasMsg(n, p)
    /\ Key(Msg(n, p), "op") = "init_module_transfer" /\ ~HasKey(Msg(n, p), "status")
    /\ LET before == receiving_module_name[<<n, p>>]
           accepted == ReceiverIdle(before)
           after == IF accepted THEN Key(Msg(n, p), "module_name") ELSE before
           reply == IF accepted THEN InitModuleTransferOk
                    ELSE InitModuleTransferError
       IN /\ receiving_module_name' =
                [receiving_module_name EXCEPT ![<<n, p>>] = after]
          /\ chan' = Handled(n, p, [q \in PeersOf(n) |->
                IF q = p THEN <<reply>> ELSE <<>>])
          /\ rx_log' = [rx_log EXCEPT ![<<n, p>>] =
                Append(@, [ev |-> "init", name |-> Key(Msg(n, p), "module_name"),
                           reply |-> Key(reply, "status"), before |-> before,
                           after |-> after])]
          /\ accepted_sent' = [accepted_sent EXCEPT ![<<n, p>>] =
                IF accepted THEN @ + 1 ELSE @]
    /\ UNCHANGED <<connected, closed, cluster_connections, node_streams,
                   uuid_count, apps, files, transferring_module, stream_sources,
                   receipts, inits_sent, files_sent, uploads, transfers,
                   local_streams, sync_log, tupleVars,
                   othersCluster>>

\* ModuleSenderProtocol.object_received for an init_module_transfer reply:
\* on "accepted" send_file(self.transferring_module.zip_path), the archive
\* stored at that path when the reply is handled; otherwise an error is
\* logged.
InitModuleTransferReplyReceived(x, p) ==
    /\ x \in Nodes \cup Uploaders /\ HasMsg(x, p)
    /\ Key(Msg(x, p), "op") = "init_module_transfer" /\ HasKey(Msg(x, p), "status")
    /\ LET accepted == Key(Msg(x, p), "status") = "accepted"
           archive == files[x][transferring_module[<<x, p>>].zip_path]
       IN /\ chan' = Handled(x, p, [q \in PeersOf(x) |->
                IF q = p /\ accepted THEN <<FileMsg(archive)>> ELSE <<>>])
          /\ files_sent' = [files_sent EXCEPT ![<<x, p>>] =
                IF accepted THEN @ + 1 ELSE @]
    /\ UNCHANGED <<connected, closed, cluster_connections, node_streams,
                   uuid_count, apps, files, receiving_module_name,
                   transferring_module, stream_sources, receipts, rx_log,
                   inits_sent, accepted_sent, uploads, transfers, local_streams, sync_log, tupleVars,
                   othersCluster>>

\* ModuleReceiverProtocol.file_received: the archive is written to
\* /tmp/{receiving_module_name}.zip, the module is added to the repository
\* and ClusterOrchestrator.distribute_module(self, module) starts a transfer
\* on every connection whose protocol is not `self`; then the receiver is
\* idle again and replies.
FileReceived(n, p) ==
    /\ n \in Nodes /\ HasMsg(n, p)
    /\ Msg(n, p).type = "f"
    /\ LET name == receiving_module_name[<<n, p>>]
           module == SparseModule(name, ZipPath(name))
           source == ModuleReceiverProtocol(n, p)
           targets == DistributeTargets(n, source)
       IN /\ transfers + Cardinality(targets) <= MaxTransfers
          /\ files' = [files EXCEPT ![n][ZipPath(name)] = Msg(n, p).data]
          /\ apps' = [apps EXCEPT ![n] = Append(@, module)]
          /\ transferring_module' =
                [e \in SenderEndpoints |->
                    IF e[1] = n /\ e[2] \in targets THEN module
                    ELSE transferring_module[e]]
          /\ receiving_module_name' =
                [receiving_module_name EXCEPT ![<<n, p>>] = None]
          /\ chan' = Handled(n, p, [q \in PeersOf(n) |->
                (IF q \in targets THEN <<InitModuleTransfer(name)>> ELSE <<>>)
                \o (IF q = p THEN <<TransferFileOk>> ELSE <<>>)])
          /\ inits_sent' = [d \in Dirs |->
                IF d[1] = n /\ d[2] \in targets THEN inits_sent[d] + 1
                ELSE inits_sent[d]]
          /\ transfers' = transfers + Cardinality(targets)
          /\ receipts' = receipts \cup
                {[node |-> n, from |-> p, name |-> name,
                  peers |-> { PeerOf(c.protocol) : c \in cluster_connections[n] },
                  started |-> [q \in PeersOf(n) |->
                      Cardinality({ c \in cluster_connections[n] :
                          c.protocol # source /\ PeerOf(c.protocol) = q })]]}
          /\ rx_log' = [rx_log EXCEPT ![<<n, p>>] =
                Append(@, [ev |-> "file", name |-> name, reply |-> "success",
                           before |-> name, after |-> None])]
    /\ UNCHANGED <<connected, closed, cluster_connections, node_streams,
                   uuid_count, stream_sources, accepted_sent, files_sent,
                   uploads, local_streams, sync_log, tupleVars,
                   othersCluster>>

\* ModuleSenderProtocol.transfer_file_ok_received: nothing for a node; the
\* uploader client closes its transport.
TransferFileOkReceived(x, p) ==
    /\ x \in Nodes \cup Uploaders /\ HasMsg(x, p)
    /\ Key(Msg(x, p), "op") = "transfer_file" /\ Key(Msg(x, p), "status") = "success"
    /\ chan' = Handled(x, p, NoOutput(x))
    /\ closed' = IF x \in Uploaders THEN closed \cup {x} ELSE closed
    /\ UNCHANGED <<connected, cluster_connections, node_streams, uuid_count,
                   apps, files, receiving_module_name, transferring_module,
                   stream_sources, receipts, rx_log, inits_sent, accepted_sent,
                   files_sent, uploads, transfers, local_streams, sync_log, tupleVars,
                   othersCluster>>

\* Handshake, stream announcement and subscription.
StreamsNext ==
    \/ \E l \in NodeLinks : ConnectionMade(l)
    \/ \E d \in Dirs : ConnectDownstreamReceived(d[1], d[2])
    \/ \E d \in Dirs : ConnectDownstreamOkReceived(d[1], d[2])
    \/ \E n \in Nodes : GetStream(n, StreamAlias)
    \/ \E l \in ClientLinks : SourceConnectionMade(l)
    \/ \E l \in ClientLinks : SinkConnectionMade(l)
    \/ \E d \in Dirs : CreateConnectorStreamReceived(d[1], d[2])
    \/ \E d \in Dirs : CreateConnectorStreamOkReceived(d[1], d[2])
    \/ \E d \in Dirs : SubscribeReceived(d[1], d[2])
    \/ \E d \in Dirs : ConnectionLost(d[1], d[2])

\* Handshake, stream announcement and subscription with the data path from
\* the source client to the sink client.
\* m is somewhere in flight from x to y.
InFlight(x, y, m) == \E i \in 1..Len(chan[<<x, y>>]) : chan[<<x, y>>][i] = m

\* The handshake of link l = <<initiator, acceptor>> has completed: the
\* initiator has sent connect_downstream and handled the success reply.
HandshakeComplete(l) ==
    /\ l \in connected
    /\ ~InFlight(l[1], l[2], ConnectDownstream)
    /\ ~InFlight(l[2], l[1], ConnectDownstreamOk)

\* A source announces its stream once the three nodes are fully connected.
AnnounceToCluster(l) ==
    /\ \A k \in RingLinks : HandshakeComplete(k)
    /\ SourceConnectionMade(l)

\* A node handles a create_connector_stream request while fewer than
\* MaxQueued frames it wrote are waiting to be read by each peer.
RingAnnouncementReceived(n, p) ==
    /\ n \in Nodes
    /\ \A q \in Nodes \ {n} : Len(chan[<<n, q>>]) < MaxQueued
    /\ CreateConnectorStreamReceived(n, p)

RingNext ==
    \/ \E l \in RingLinks : ConnectionMade(l)
    \/ \E d \in Dirs : ConnectDownstreamReceived(d[1], d[2])
    \/ \E d \in Dirs : ConnectDownstreamOkReceived(d[1], d[2])
    \/ \E l \in ClientLinks : AnnounceToCluster(l)
    \/ \E d \in Dirs : RingAnnouncementReceived(d[1], d[2])
    \/ \E d \in Dirs : CreateConnectorStreamOkReceived(d[1], d[2])

TuplesNext ==
    \/ \E l \in NodeLinks : ConnectionMade(l)
    \/ \E d \in Dirs : ConnectDownstreamReceived(d[1], d[2])
    \/ \E d \in Dirs : ConnectDownstreamOkReceived(d[1], d[2])
    \/ \E l \in ClientLinks : SourceConnectionMade(l)
    \/ \E l \in ClientLinks : SinkConnectionMade(l)
    \/ \E d \in Dirs : CreateConnectorStreamReceived(d[1], d[2])
    \/ \E d \in Dirs : CreateConnectorStreamOkReceived(d[1], d[2])
    \/ \E d \in Dirs : SubscribeReceived(d[1], d[2])
    \/ \E s \in SourceClients : SourceStreamInitialized(s)
    \/ \E s \in SourceClients : SourceEmit(s)
    \/ \E d \in Dirs : DataTupleReceived(d[1], d[2])
    \/ \E k \in SinkClients : SinkObjectReceived(k)

\* Handshake and module transfer.
\* ---- dispatch ----
\* The sub-protocols multiplexed on node n's connection with p: the set
\* ClusterProtocol builds, with ChildNodeProtocol added on the side that
\* dialled and ParentNodeProtocol on the side that accepted.
SubProtocols(n, p) ==
    { "DeploymentServerProtocol", "ModuleReceiverProtocol",
      "StreamDataReceiverProtocol", "StreamReceiverProtocol",
      "StreamPublishProtocol", "ModuleSenderProtocol",
      "StreamMigratorProtocol", "StreamDataSenderProtocol" }
    \cup (IF <<n, p>> \in Links THEN {"ChildNodeProtocol"}
          ELSE {"ParentNodeProtocol"})

\* The condition under which sub-protocol h's object_received acts on obj
\* (a status of None: the object has no "status" key).
Accepts(h, obj) ==
    CASE h = "DeploymentServerProtocol" ->
            Key(obj, "op") = "create_deployment" /\ ~HasKey(obj, "status")
      [] h = "ModuleReceiverProtocol" ->
            Key(obj, "op") = "init_module_transfer" /\ ~HasKey(obj, "status")
      [] h = "ModuleSenderProtocol" ->
            \/ Key(obj, "op") = "init_module_transfer" /\ HasKey(obj, "status")
            \/ Key(obj, "op") = "transfer_file" /\ HasKey(obj, "status")
      [] h = "ChildNodeProtocol" ->
            Key(obj, "op") = "connect_downstream" /\ HasKey(obj, "status")
      [] h = "ParentNodeProtocol" ->
            Key(obj, "op") = "connect_downstream" /\ ~HasKey(obj, "status")
      [] h = "StreamPublishProtocol" ->
            Key(obj, "op") = "subscribe" /\ ~HasKey(obj, "status")
      [] h = "StreamMigratorProtocol" ->
            Key(obj, "op") = "create_connector_stream" /\ HasKey(obj, "status")
      [] h = "StreamReceiverProtocol" ->
            Key(obj, "op") = "create_connector_stream" /\ ~HasKey(obj, "status")
      [] h = "StreamDataReceiverProtocol" -> Key(obj, "op") = "data_tuple"
      [] OTHER -> FALSE

\* MultiplexerProtocol.object_received hands obj to every sub-protocol; these
\* are the ones that act on it.
HandlersOf(n, p, obj) == { h \in SubProtocols(n, p) : Accepts(h, obj) }

\* A peer p of node n writes an object whose op no sub-protocol knows, with
\* or without a status.
UnknownOpSent(p, n, status) ==
    /\ n \in Nodes /\ <<p, n>> \in Dirs
    /\ <<p, n>> \in connected \/ <<n, p>> \in connected
    /\ <<n, p>> \notin lost
    /\ unknown_sent < MaxUnknown
    /\ unknown_sent' = unknown_sent + 1
    /\ chan' = [chan EXCEPT ![<<p, n>>] =
                    Append(@, ObjMsg(IF status = None THEN [op |-> "ping"]
                                     ELSE [op |-> "ping", status |-> status]))]
    /\ UNCHANGED <<dispatch_log, connected, closed, cluster_connections,
                   node_streams, uuid_count, apps, files,
                   receiving_module_name, transferring_module, stream_sources,
                   receipts, rx_log, inits_sent, accepted_sent, files_sent,
                   uploads, transfers, local_streams, sync_log, tupleVars,
                   othersDispatch>>

\* MultiplexerProtocol.object_received for an object that no sub-protocol
\* acts on: every object_received returns at its guard.  Nothing is written
\* to the log or to the transport on that path.
ObjectIgnored(n, p) ==
    /\ n \in Nodes /\ HasMsg(n, p)
    /\ Msg(n, p).type = "o"
    /\ HandlersOf(n, p, Msg(n, p)) = {}
    /\ chan' = Handled(n, p, NoOutput(n))
    /\ dispatch_log' = Append(dispatch_log,
            [node |-> n, peer |-> p, op |-> Key(Msg(n, p), "op"),
             status |-> Key(Msg(n, p), "status"), logged |-> FALSE, replies |-> 0,
             closed |-> FALSE])
    /\ UNCHANGED <<unknown_sent, connected, closed, cluster_connections,
                   node_streams, uuid_count, apps, files,
                   receiving_module_name, transferring_module, stream_sources,
                   receipts, rx_log, inits_sent, accepted_sent, files_sent,
                   uploads, transfers, local_streams, sync_log, tupleVars,
                   othersDispatch>>

ModulesNext ==
    \/ \E l \in NodeLinks : ConnectionMade(l)
    \/ \E d \in Dirs : ConnectDownstreamReceived(d[1], d[2])
    \/ \E d \in Dirs : ConnectDownstreamOkReceived(d[1], d[2])
    \/ \E l \in ClientLinks : UploaderConnectionMade(l)
    \/ \E d \in Dirs : InitModuleTransferReceived(d[1], d[2])
    \/ \E d \in Dirs : InitModuleTransferReplyReceived(d[1], d[2])
    \/ \E d \in Dirs : FileReceived(d[1], d[2])
    \/ \E d \in Dirs : TransferFileOkReceived(d[1], d[2])

-----------------------------------------------------------------------------
(***************************************************************************)
(* Deployments on node A (cluster_orchestrator.py: create_deployment,      *)
(* deploy_pipelines) and the tuples that then flow through the wiring.     *)
(* A stream is named by its position in node A's repository.               *)
(***************************************************************************)
\* Bounds of the deployment model.
MaxRouterTuples == 2
MaxStreamCreations == 2
MaxDeployments == 2
MaxSubscriptions == 2
MaxInputSubscriptions == 1

DeployNode == "A"

\* The operator factories exported by the modules node A holds.
ModuleFactories == {"Detector"}

\* The streams sources announce to node A, by alias.
InputAliases == {"in", "alerts"}

\* The peers that subscribe to streams of node A.
SubscriberPeers == {"B", "C"}

\* The tuples data sources send, in order.
RouterTuples == <<"d1", "d2", "d3">>

\* The value of a pipelines entry: a nested map or a list of selectors.
PipelineMap(entries) == [kind |-> "dict", entries |-> entries]
SelectorList(selectors) == [kind |-> "list", entries |-> selectors]

\* The deployment descriptors (deployment.py, Deployment): streams and
\* pipelines, the pipelines map as its items in order.
DeploymentNames == {"in-only", "in-and-alerts", "direct"}

\* The descriptor with a fork on a stream that operator results are emitted
\* on.
EmitDeploymentNames == {"two-stage"}

\* Descriptors with a key no module exports and with an operator key at the
\* top level.
OddDeploymentNames == {"missing", "top-operator"}

DetectorPipelines ==
    << <<"in", PipelineMap(<< <<"Detector", SelectorList(<<"alerts">>)>> >>)>> >>

DeploymentStreams(d) ==
    IF d = "in-only" THEN {"in"} ELSE {"in", "alerts"}

\* in: {Missing: [alerts], Detector: [alerts]}, where no module exports
\* an operator named Missing.
MissingPipelines ==
    << <<"in", PipelineMap(<< <<"Missing", SelectorList(<<"alerts">>)>>,
                              <<"Detector", SelectorList(<<"alerts">>)>> >>)>> >>

\* {in: [], Detector: [alerts]}: an operator key at the top level.
TopOperatorPipelines ==
    << <<"in", SelectorList(<<>>)>>, <<"Detector", SelectorList(<<"alerts">>)>> >>

\* {in: {Detector: [alerts]}, alerts: {Detector: []}}: the stream alerts,
\* which carries Detector's outputs, is itself an input of Detector.
TwoStagePipelines ==
    << <<"in", PipelineMap(<< <<"Detector", SelectorList(<<"alerts">>)>> >>)>>,
       <<"alerts", PipelineMap(<< <<"Detector", SelectorList(<<>>)>> >>)>> >>

DeploymentPipelines(d) ==
    IF d = "direct"
    THEN << <<"in", SelectorList(<<"alerts">>)>> >>
    ELSE IF d = "two-stage" THEN TwoStagePipelines
    ELSE IF d = "missing" THEN MissingPipelines
    ELSE IF d = "top-operator" THEN TopOperatorPipelines
    ELSE DetectorPipelines

NoGet == [stream_id |-> None, stream_alias |-> None, before |-> <<>>,
          after |-> <<>>, returned |-> 0]

DeployInit ==
    /\ runtime_operators = {}
    /\ place_log = <<>>
    /\ operator_buffer = [o \in ModuleFactories |-> <<>>]
    /\ deployments = <<>>
    /\ deploy_raised = FALSE
    /\ warnings = <<>>
    /\ emitted = [t \in Threads |-> <<>>]
    /\ results = <<>>
    /\ router_tuples = 0
    /\ gets = 0
    /\ last_get = NoGet
    /\ emit_events = [t \in Threads |-> <<>>]
    /\ subscriptions = <<>>
    /\ emit_raised = <<>>

\* get_stream returning the stream without adding the one it created.
GetStreamResultNotAdded(strs, k, stream_id, stream_alias, i) ==
    [strs |-> strs,
     uuids |-> IF i = Len(strs) + 1 /\ stream_id = None THEN k + 1 ELSE k,
     i |-> i]

\* StreamRepository.get_stream on the repository strs after k uuid4() calls,
\* returning the stream at position i: the repository, the uuid count and i.
GetStreamResult(strs, k, stream_id, stream_alias, i) ==
    [strs |-> IF i = Len(strs) + 1
              THEN Append(strs, NewStream(stream_id, stream_alias, k))
              ELSE strs,
     uuids |-> IF i = Len(strs) + 1 /\ stream_id = None THEN k + 1 ELSE k,
     i |-> i]

\* The repository of this section never holds two streams matching one
\* selector, so the stream get_stream returns is determined.
GetOne(strs, k, stream_id, stream_alias) ==
    GetStreamResult(strs, k, stream_id, stream_alias,
                    CHOOSE i \in GetStreamIndexes(strs, stream_id, stream_alias) : TRUE)

\* A StreamOperator instance: its class name and the uuid4() of __init__.
OperatorInstance(operator_name, k) == [name |-> operator_name, id |-> UUIDs[k + 1]]

\* The None that place_operator returns when no module exports the name.
NoOperator == [name |-> None, id |-> None]

OperatorsNamed(operators, operator_name) ==
    { o \in operators : o.name = operator_name }

\* place_operator instantiating the factory without looking for an operator
\* already placed.
PlaceOperatorAnew(operators, operator_name, k) ==
    IF operator_name \in ModuleFactories
    THEN [operator |-> OperatorInstance(operator_name, k),
          operators |-> operators \cup {OperatorInstance(operator_name, k)},
          uuids |-> k + 1]
    ELSE [operator |-> NoOperator, operators |-> operators, uuids |-> k]

\* SparseRuntime.place_operator(operator_name) with the operators placed and
\* k uuid4() calls made: the operator returned (the one already placed under
\* the name, else a new instance of the factory a module exports, else None),
\* the operators placed and the uuid4() calls made afterwards.
PlaceOperator(operators, operator_name, k) ==
    IF OperatorsNamed(operators, operator_name) # {}
    THEN [operator |-> CHOOSE o \in OperatorsNamed(operators, operator_name) : TRUE,
          operators |-> operators, uuids |-> k]
    ELSE IF operator_name \in ModuleFactories
    THEN [operator |-> OperatorInstance(operator_name, k),
          operators |-> operators \cup {OperatorInstance(operator_name, k)},
          uuids |-> k + 1]
    ELSE [operator |-> NoOperator, operators |-> operators, uuids |-> k]

\* The state deploy_pipelines works on: the repository, the uuid4() calls
\* made, the operators placed, the warnings logged, the place_operator calls
\* made and whether an exception has ended the deployment.
DeployState(strs, k, operators, logged, placed, raised) ==
    [strs |-> strs, uuids |-> k, operators |-> operators, warnings |-> logged,
     placed |-> placed, raised |-> raised]

RECURSIVE DeployLeaves(_, _, _, _, _)
\* deploy_pipelines, the loop over a list of leaf selectors from the j-th on.
DeployLeaves(s, streams, selectors, j, output) ==
    IF s.raised \/ j > Len(selectors) THEN s
    ELSE LET selector == selectors[j] IN
         IF selector \in streams
         THEN LET g == GetOne(s.strs, s.uuids, selector, None) IN
              IF output = 0
              THEN [s EXCEPT !.strs = g.strs, !.uuids = g.uuids, !.raised = TRUE]
              ELSE DeployLeaves(
                     [s EXCEPT !.strs = [g.strs EXCEPT ![output].streams = @ \cup {g.i}],
                               !.uuids = g.uuids],
                     streams, selectors, j + 1, output)
         ELSE DeployLeaves(
                [s EXCEPT !.warnings = Append(@, <<"Leaf operator not created", selector>>)],
                streams, selectors, j + 1, output)

RECURSIVE DeployPipelines(_, _, _, _, _, _)
\* ClusterOrchestrator.deploy_pipelines(streams, pipelines, source), the loop
\* over the items of pipelines from the j-th on; source = 0 is None.
DeployPipelines(s, streams, pipelines, j, source, output) ==
    IF s.raised \/ j > Len(pipelines) THEN s
    ELSE LET key == pipelines[j][1]
             destinations == pipelines[j][2]
             p == PlaceOperator(s.operators, key, s.uuids)
             calls == Append(s.placed, [name |-> key, returned |-> p.operator])
             notfound == IF p.operator = NoOperator
                         THEN Append(s.warnings, <<"Operator not found", key>>)
                         ELSE s.warnings
             g == IF key \in streams
                  THEN GetOne(s.strs, s.uuids, None, key)
                  ELSE GetOne(s.strs, p.uuids, None, None)
             \* the state and output_stream after the first half of the body
             s1 == IF key \in streams
                   THEN [s EXCEPT !.strs = g.strs, !.uuids = g.uuids]
                   ELSE IF source = 0
                   THEN [s EXCEPT !.operators = p.operators,
                                  !.uuids = p.uuids,
                                  !.placed = calls,
                                  \* the warning names str(operator), which
                                  \* is "None" when no module exports the key
                                  !.warnings = Append(notfound,
                                     <<"Placed operator with no input stream",
                                       p.operator.name>>)]
                   ELSE [s EXCEPT !.operators = p.operators,
                                  !.placed = calls,
                                  !.warnings = notfound,
                                  !.strs = [g.strs EXCEPT ![source].operators =
                                               @ \cup {<<p.operator, g.i>>}],
                                  !.uuids = g.uuids,
                                  \* connect_to_operator logs operator.name,
                                  \* which raises for None
                                  !.raised = (p.operator = NoOperator)]
             out1 == IF key \in streams \/ source # 0 THEN g.i ELSE output
             s2 == IF s1.raised THEN s1
                   ELSE IF destinations.kind = "dict"
                   THEN IF out1 = 0 THEN [s1 EXCEPT !.raised = TRUE]
                        ELSE DeployPipelines(s1, streams, destinations.entries, 1, out1, 0)
                   ELSE DeployLeaves(s1, streams, destinations.entries, 1, out1)
         IN DeployPipelines(s2, streams, pipelines, j + 1, source, out1)

\* ---- SparseStream.emit on node A, as the threads run it ----
\* The I/O loop runs tuple_received and with it emit and call_operator; the
\* executor thread runs execute_task and with it the result callbacks and
\* their emits.  A step of a thread is one access to state the other thread
\* can see; the steps of qos_monitor, of the task dispatcher and of the
\* result callback are those of the runtime above.  The operators of
\* ModuleFactories keep the default use_batching = True.

\* The stream at position i of node A's repository.
StreamOf(i) == node_streams[DeployNode][i]

\* The frame of a call emit(data_tuple) on the stream at position i: id
\* numbers the emit calls of the thread, parent is the emit that called it (0
\* for none).
\* deploy_pipelines connects operators and streams only to the stream of a
\* pipeline key and to the output streams it creates, and no emit is walking
\* those meanwhile, so the loops over self.operators and self.streams walk
\* the sets as they are at the call.
EmitFrame(i, data_tuple, id, parent, depth) ==
    [stream |-> i, tuple |-> data_tuple, id |-> id, parent |-> parent,
     depth |-> depth, pc |-> "forks", forks |-> StreamOf(i).operators,
     chained |-> StreamOf(i).streams, cur |-> NoFork, seq |-> 0, index |-> 0,
     tmp |-> 0, left |-> {}, size |-> 0, used |-> 0, rec |-> 0]

\* One thing an emit did: ev is "emit" at its entry (with the stream's forks,
\* subscribed protocols and chained streams as the loops will walk them),
\* "call" for runtime.call_operator, "send" for protocol.send_data_tuple and
\* "inc" for `self.sequence_no += 1`; seq is the sequence_no the step read.
EmitEvent(ev, t, f, seq, fork, protocol) ==
    [ev |-> ev, emit |-> f.id, parent |-> f.parent, thread |-> t,
     stream |-> f.stream, depth |-> f.depth, tuple |-> f.tuple,
     seq |-> seq, fork |-> fork, protocol |-> protocol,
     operators |-> StreamOf(f.stream).operators,
     protocols |-> StreamOf(f.stream).protocols,
     streams |-> StreamOf(f.stream).streams,
     subscribed |-> { subscriptions[j].peer :
                        j \in { x \in 1..Len(subscriptions) :
                                   subscriptions[x].stream = f.stream } }]

\* stream.emit(data_tuple) is called on thread t, whose stack is base.
EmitCalled(t, base, i, data_tuple, parent, depth) ==
    LET f == EmitFrame(i, data_tuple, Len(emitted[t]) + 1, parent, depth) IN
      /\ stack' = [stack EXCEPT ![t] = Append(base, f)]
      /\ emitted' = [emitted EXCEPT ![t] =
                        Append(@, [stream |-> i, tuple |-> data_tuple])]
      /\ emit_events' = [emit_events EXCEPT ![t] = Append(@,
            EmitEvent("emit", t, f, StreamOf(i).sequence_no, <<>>, <<>>))]

\* An exception leaves every emit on thread t's stack (and execute_task on
\* the executor thread), and is recorded.
EmitRaises(t, error) ==
    /\ Raises(t, error)
    /\ emit_raised' = Append(emit_raised,
          [thread |-> t, error |-> error, stream |-> Top(t).stream,
           tuple |-> Top(t).tuple])

\* emit: the next (operator, output_stream) fork of the loop over
\* self.operators; call_operator reads source.sequence_no.
EmitCallOperator(t) ==
    /\ stack[t] # <<>>
    /\ Top(t).pc = "forks"
    /\ \E fork \in Top(t).forks :
         stack' = ReplaceTop(t, [Top(t) EXCEPT
                                   !.forks = @ \ {fork},
                                   !.cur = fork,
                                   !.seq = StreamOf(Top(t).stream).sequence_no,
                                   !.pc = "buffer"])
    /\ UNCHANGED <<stepRest, worker, exec_log, qosVars, dispatchVars,
                   node_streams, chan, operator_buffer, emitted, emit_events,
                   emit_raised, results, router_tuples>>

\* call_operator: operator.buffer_input appends the tuple, with the source
\* stream, the sequence number read and the output stream of its callback,
\* under the buffer's lock and returns its index.  The operator of a fork is
\* None when the deployment named an operator no module exports, and
\* operator.buffer_input then raises AttributeError.
OperatorBufferInput(t) ==
    /\ stack[t] # <<>>
    /\ Top(t).pc = "buffer"
    /\ LET f == Top(t) IN
         IF f.cur[1] = NoOperator
         THEN /\ EmitRaises(t, "AttributeError")
              /\ UNCHANGED <<operator_buffer, emit_events>>
         ELSE /\ operator_buffer' = [operator_buffer EXCEPT ![f.cur[1].name] =
                    Append(@, [data |-> f.tuple, source |-> f.stream,
                               seq |-> f.seq, output |-> f.cur[2]])]
              /\ stack' = ReplaceTop(t, [f EXCEPT
                              !.index = Len(operator_buffer[f.cur[1].name]),
                              !.pc = "enqueue"])
              /\ emit_events' = [emit_events EXCEPT ![t] = Append(@,
                    EmitEvent("call", t, f, f.seq, f.cur, <<>>))]
              /\ UNCHANGED <<worker, exec_log, emit_raised>>
    /\ UNCHANGED <<stepRest, qosVars, dispatchVars, node_streams, chan,
                   emitted, results, router_tuples>>

\* call_operator: the operator is put on the task queue when the input was
\* the first of its buffer; qos_monitor.operator_input_buffered follows.
TaskQueuePut(t) ==
    /\ stack[t] # <<>>
    /\ Top(t).pc = "enqueue"
    /\ LET f == Top(t) IN
         /\ task_queue' = IF f.index = 0 THEN Append(task_queue, f.cur[1])
                          ELSE task_queue
         /\ stack' = ReplaceTop(t, [f EXCEPT !.pc = "qos"])
    /\ UNCHANGED <<stepRest, worker, exec_log, qosVars, dispatcher_pc,
                   node_streams, chan, operator_buffer, emitted, emit_events,
                   emit_raised, results, router_tuples>>

\* emit: `for protocol in self.protocols` creates the set's iterator, which
\* remembers the size of the set.
EmitProtocols(t) ==
    /\ stack[t] # <<>>
    /\ Top(t).pc = "forks"
    /\ Top(t).forks = {}
    /\ StreamOf(Top(t).stream).protocols # {}
    /\ stack' = ReplaceTop(t, [Top(t) EXCEPT
                 !.pc = "protocols",
                 !.left = StreamOf(Top(t).stream).protocols,
                 !.size = Cardinality(StreamOf(Top(t).stream).protocols)])
    /\ UNCHANGED <<stepRest, worker, exec_log, qosVars, dispatchVars,
                   node_streams, chan, operator_buffer, emitted, emit_events,
                   emit_raised, results, router_tuples>>

\* emit: one turn of the loop over the protocols.  The iterator's next
\* raises RuntimeError when the size of the set has changed; otherwise
\* StreamDataSenderProtocol.send_data_tuple(str(stream), data_tuple) writes
\* the data_tuple object to the transport of the next protocol's connection,
\* or the loop ends.
SendDataTuple(t) ==
    /\ stack[t] # <<>>
    /\ Top(t).pc = "protocols"
    /\ LET f == Top(t) IN
         IF Cardinality(StreamOf(f.stream).protocols) # f.size
         THEN /\ EmitRaises(t, "RuntimeError")
              /\ UNCHANGED <<chan, emit_events>>
         ELSE IF f.left # {}
         THEN /\ \E protocol \in f.left :
                   /\ stack' = ReplaceTop(t, [f EXCEPT !.left = @ \ {protocol}])
                   /\ chan' = [chan EXCEPT ![<<DeployNode, PeerOf(protocol)>>] =
                         Append(@, DataTuple(StreamName(StreamOf(f.stream)),
                                             f.tuple))]
                   /\ emit_events' = [emit_events EXCEPT ![t] = Append(@,
                         EmitEvent("send", t, f, StreamOf(f.stream).sequence_no,
                                   <<>>, protocol))]
              /\ UNCHANGED <<worker, exec_log, emit_raised>>
         ELSE /\ stack' = ReplaceTop(t, [f EXCEPT !.pc = "chained"])
              /\ UNCHANGED <<worker, exec_log, emit_raised, chan, emit_events>>
    /\ UNCHANGED <<stepRest, qosVars, dispatchVars, node_streams,
                   operator_buffer, emitted, results, router_tuples>>

\* The emit of frame f has left its loop over self.protocols: the loop has
\* ended, or the set was empty when the loop over the operators ended.
PastSubscribers(f) ==
    \/ f.pc = "chained"
    \/ f.pc = "forks" /\ f.forks = {} /\ StreamOf(f.stream).protocols = {}

\* emit: the next stream of the loop over self.streams; its emit is called.
EmitStreams(t) ==
    /\ stack[t] # <<>>
    /\ PastSubscribers(Top(t))
    /\ \E c \in Top(t).chained :
         EmitCalled(t, [stack[t] EXCEPT ![Len(stack[t])] =
                           [Top(t) EXCEPT !.chained = @ \ {c}, !.pc = "chained"]],
                    c, Top(t).tuple, Top(t).id, Top(t).depth + 1)
    /\ UNCHANGED <<stepRest, worker, exec_log, qosVars, dispatchVars,
                   node_streams, chan, operator_buffer, emit_raised, results,
                   router_tuples>>

\* emit: self.sequence_no += 1, the read of the field.
EmitSequenceNoRead(t) ==
    /\ stack[t] # <<>>
    /\ PastSubscribers(Top(t))
    /\ Top(t).chained = {}
    /\ stack' = ReplaceTop(t, [Top(t) EXCEPT
                                 !.tmp = StreamOf(Top(t).stream).sequence_no,
                                 !.pc = "inc"])
    /\ UNCHANGED <<stepRest, worker, exec_log, qosVars, dispatchVars,
                   node_streams, chan, operator_buffer, emitted, emit_events,
                   emit_raised, results, router_tuples>>

\* emit: self.sequence_no += 1, the write of the field; emit returns.
EmitSequenceNoWrite(t) ==
    /\ stack[t] # <<>>
    /\ Top(t).pc = "inc"
    /\ LET f == Top(t) IN
         /\ node_streams' = [node_streams EXCEPT
               ![DeployNode][f.stream].sequence_no = f.tmp + 1]
         /\ emit_events' = [emit_events EXCEPT ![t] = Append(@,
               EmitEvent("inc", t, f, f.tmp, <<>>, <<>>))]
    /\ stack' = Pop(t)
    /\ UNCHANGED <<stepRest, worker, exec_log, qosVars, dispatchVars, chan,
                   operator_buffer, emitted, emit_raised, results,
                   router_tuples>>

\* A source announces a stream by alias: StreamRouter.create_connector_stream
\* gets or creates it.
StreamAnnounced(stream_alias) ==
    /\ stack["io"] = <<>>
    /\ Len(node_streams[DeployNode]) < MaxStreamCreations + MaxDeployments
    /\ Matches(node_streams[DeployNode], stream_alias) = {}
    /\ LET g == GetOne(node_streams[DeployNode], uuid_count, None, stream_alias) IN
         /\ node_streams' = [node_streams EXCEPT ![DeployNode] = g.strs]
         /\ uuid_count' = g.uuids
    /\ UNCHANGED <<runtime_operators, place_log, operator_buffer, deployments,
                   deploy_raised, warnings, emitted, results, router_tuples,
                   gets, last_get, emit_events, emit_raised, subscriptions,
                   othersDeploy>>

\* A subscription as the history keeps it: who was subscribed to which stream
\* (its position in the repository) and by which call.
Subscription(by, stream_alias, p, i) ==
    [by |-> by, stream_alias |-> stream_alias, peer |-> p, stream |-> i]

\* StreamRouter.subscribe handed a protocol object of the publish protocol's
\* own instead of the connection's stream_data_sender_protocol.
RouterSubscribeOwnProtocol(stream_alias, p) ==
    LET strs == node_streams[DeployNode]
        protocol == <<"StreamPublishProtocol", DeployNode, p>>
    IN IF Matches(strs, stream_alias) # {}
       THEN /\ \E i \in Matches(strs, stream_alias) :
                 /\ node_streams' = [node_streams EXCEPT ![DeployNode] =
                       [strs EXCEPT ![i].protocols = @ \cup {protocol}]]
                 /\ subscriptions' = Append(subscriptions,
                       Subscription("subscribe", stream_alias, p, i))
            /\ UNCHANGED uuid_count
       ELSE LET g == GetOne(strs, uuid_count, None, stream_alias) IN
            /\ node_streams' = [node_streams EXCEPT ![DeployNode] =
                  [g.strs EXCEPT ![g.i].protocols = @ \cup {protocol}]]
            /\ uuid_count' = g.uuids
            /\ subscriptions' = Append(subscriptions,
                  Subscription("subscribe", stream_alias, p, g.i))

\* StreamRouter.subscribe(stream_alias, protocol) with the
\* stream_data_sender_protocol of the connection with peer p: the first
\* stream matching the selector gets the protocol, and without one a stream
\* with that alias is created for it.
RouterSubscribe(stream_alias, p) ==
    LET strs == node_streams[DeployNode]
        protocol == StreamDataSenderProtocol(DeployNode, p)
    IN IF Matches(strs, stream_alias) # {}
       THEN /\ \E i \in Matches(strs, stream_alias) :
                 /\ node_streams' = [node_streams EXCEPT ![DeployNode] =
                       [strs EXCEPT ![i].protocols = @ \cup {protocol}]]
                 /\ subscriptions' = Append(subscriptions,
                       Subscription("subscribe", stream_alias, p, i))
            /\ UNCHANGED uuid_count
       ELSE LET g == GetOne(strs, uuid_count, None, stream_alias) IN
            /\ node_streams' = [node_streams EXCEPT ![DeployNode] =
                  [g.strs EXCEPT ![g.i].protocols = @ \cup {protocol}]]
            /\ uuid_count' = g.uuids
            /\ subscriptions' = Append(subscriptions,
                  Subscription("subscribe", stream_alias, p, g.i))

\* StreamPublishProtocol.subscribe_received(stream_alias) on node A's
\* connection with peer p, in a callback of the I/O loop:
\* stream_router.subscribe, then send_subscribe_ok writes the reply to the
\* peer.
PublishSubscribeReceived(stream_alias, p) ==
    /\ stack["io"] = <<>>
    /\ Len(subscriptions) < MaxSubscriptions
    /\ Len(node_streams[DeployNode]) < MaxStreamCreations + MaxDeployments
    /\ RouterSubscribe(stream_alias, p)
    /\ chan' = [chan EXCEPT ![<<DeployNode, p>>] =
                   Append(@, SubscribeOk(stream_alias))]
    /\ UNCHANGED <<clusterIdle, runtime_operators, place_log, operator_buffer,
                   deployments, deploy_raised, warnings, emitted, results,
                   router_tuples, gets, last_get, emit_events, emit_raised,
                   varsCodec, varsRuntime, varsSubscribers, varsDispatch>>

\* ClusterConnection.migrate_stream(stream) for the connection with peer p:
\* the create_connector_stream request is written to the connection and the
\* connection's stream_data_sender_protocol is subscribed to the stream.
MigrateStream(i, p) ==
    /\ stack["io"] = <<>>
    /\ Len(subscriptions) < MaxSubscriptions
    /\ i \in 1..Len(node_streams[DeployNode])
    /\ LET stream == node_streams[DeployNode][i] IN
         /\ chan' = [chan EXCEPT ![<<DeployNode, p>>] =
               Append(@, CreateConnectorStream(stream.stream_id, stream.stream_alias))]
         /\ node_streams' = [node_streams EXCEPT ![DeployNode][i].protocols =
               @ \cup {StreamDataSenderProtocol(DeployNode, p)}]
         /\ subscriptions' = Append(subscriptions,
               Subscription("migrate_stream", stream.stream_alias, p, i))
    /\ UNCHANGED <<connected, closed, cluster_connections, uuid_count, apps,
                   files, receiving_module_name, transferring_module,
                   stream_sources, receipts, rx_log, inits_sent, accepted_sent,
                   files_sent, uploads, transfers, local_streams, sync_log,
                   tupleVars, runtime_operators, place_log, operator_buffer,
                   deployments, deploy_raised, warnings, emitted, results,
                   router_tuples, gets, last_get, emit_events, emit_raised, varsCodec,
                   varsRuntime, varsSubscribers, varsDispatch>>

\* A peer's subscribe request for the input stream of the deployments.
InputSubscribed(p) ==
    /\ Len(subscriptions) < MaxInputSubscriptions
    /\ PublishSubscribeReceived("in", p)

\* ClusterOrchestrator.create_deployment(deployment)
CreateDeployment(d) ==
    /\ stack["io"] = <<>>
    /\ Len(deployments) < MaxDeployments
    /\ LET s == DeployPipelines(
                  DeployState(node_streams[DeployNode], uuid_count,
                              runtime_operators, warnings, place_log, FALSE),
                  DeploymentStreams(d), DeploymentPipelines(d), 1, 0, 0)
       IN /\ node_streams' = [node_streams EXCEPT ![DeployNode] = s.strs]
          /\ uuid_count' = s.uuids
          /\ runtime_operators' = s.operators
          /\ warnings' = s.warnings
          /\ place_log' = s.placed
          /\ deploy_raised' = s.raised
    /\ deployments' = Append(deployments,
          [name |-> d, emits_before |-> [t \in Threads |-> Len(emitted[t])]])
    /\ UNCHANGED <<operator_buffer, emitted, results, router_tuples, gets,
                   last_get, emit_events, emit_raised, subscriptions,
                   othersDeploy>>

RECURSIVE ConnectOperators(_, _, _, _, _)
\* The loop of connect_to_operators over the operators ops named in
\* operator_names, from the j-th on, in the order the set is walked:
\* get_stream(stream_alias=o.name) gives the output stream and
\* connect_to_operator adds the fork to the stream at position i.
ConnectOperators(strs, k, i, ops, j) ==
    IF j > Len(ops) THEN [strs |-> strs, uuids |-> k]
    ELSE LET g == GetOne(strs, k, None, ops[j].name)
         IN ConnectOperators(
               [g.strs EXCEPT ![i].operators = @ \cup {<<ops[j], g.i>>}],
               g.uuids, i, ops, j + 1)

\* StreamRouter.connect_to_operators(stream, operator_names) for the stream
\* at position i of node A's repository, in a callback of the I/O loop.
ConnectToOperators(i, operator_names) ==
    /\ stack["io"] = <<>>
    /\ i \in 1..Len(node_streams[DeployNode])
    /\ LET named == { o \in runtime_operators : o.name \in operator_names }
       IN \E ops \in [1..Cardinality(named) -> named] :
             /\ \A a, b \in 1..Cardinality(named) : a # b => ops[a] # ops[b]
             /\ LET c == ConnectOperators(node_streams[DeployNode], uuid_count,
                                          i, ops, 1)
                IN /\ node_streams' = [node_streams EXCEPT ![DeployNode] = c.strs]
                   /\ uuid_count' = c.uuids
    /\ UNCHANGED <<runtime_operators, place_log, operator_buffer, deployments,
                   deploy_raised, warnings, emitted, results, router_tuples,
                   gets, last_get, emit_events, emit_raised, subscriptions,
                   othersDeploy>>

\* StreamRouter.tuple_received(stream_selector, data_tuple) in a callback of
\* the I/O loop: the stream matching the selector is found and its emit is
\* called; without one a warning is logged.
RouterTupleReceived(stream_selector) ==
    /\ stack["io"] = <<>>
    /\ router_tuples < MaxRouterTuples
    /\ router_tuples' = router_tuples + 1
    /\ LET strs == node_streams[DeployNode]
           data_tuple == RouterTuples[router_tuples + 1]
       IN IF Matches(strs, stream_selector) = {}
          THEN UNCHANGED <<stack, emitted, emit_events>>
          ELSE \E i \in Matches(strs, stream_selector) :
                  EmitCalled("io", stack["io"], i, data_tuple, 0, 0)
    /\ UNCHANGED <<stepRest, worker, exec_log, qosVars, dispatchVars,
                   node_streams, chan, operator_buffer, emit_raised, results>>

\* StreamOperator.execute_task in the executor thread:
\* memory_buffer.dispatch_batch() swaps the buffer for an empty one under the
\* buffer's lock; qos_monitor.operator_input_dispatched follows for each
\* input taken.
OperatorDispatchBatch ==
    /\ worker.pc = "dispatch"
    /\ worker' = [worker EXCEPT !.pc = "qos", !.i = 1,
                                !.batch = operator_buffer[worker.op.name]]
    /\ operator_buffer' = [operator_buffer EXCEPT ![worker.op.name] = <<>>]
    /\ exec_log' = [exec_log EXCEPT ![Len(exec_log)] =
                       Swapped(@, operator_buffer[worker.op.name],
                               operator_buffer[worker.op.name])]
    /\ UNCHANGED <<stepRest, stack, qosVars, dispatchVars, node_streams, chan,
                   emitted, emit_events, emit_raised, results, router_tuples>>

\* execute_task: result = self.call(data) with the inputs taken, in order;
\* the operator returns one result for each, which the callback of the input
\* will emit on the output stream given with it.
OperatorCall ==
    /\ worker.pc = "qos"
    /\ worker.i > Len(worker.batch)
    /\ worker' = [worker EXCEPT !.pc = "callbacks", !.i = 1,
                                !.result = CallResult(worker.batch)]
    /\ exec_log' = [exec_log EXCEPT ![Len(exec_log)].calls =
                       Append(@, BatchData(worker.batch))]
    /\ results' = results \o [k \in 1..Len(worker.batch) |->
                                [operator |-> worker.op.name,
                                 tuple |-> CallResult(worker.batch)[k],
                                 output |-> worker.batch[k].output]]
    /\ UNCHANGED <<stepRest, stack, qosVars, dispatchVars, node_streams, chan,
                   operator_buffer, emitted, emit_events, emit_raised,
                   router_tuples>>

\* SparseRuntime.result_received, after qos_monitor.operator_result_received
\* has returned: output.emit(output_tuple) is called in the executor thread.
ResultReceivedEmit ==
    /\ worker.pc = "emit"
    /\ EmitCalled("worker", stack["worker"], worker.batch[worker.i].output,
                  worker.result[worker.i], 0, 0)
    /\ worker' = [worker EXCEPT !.pc = "callbacks", !.i = @ + 1]
    /\ UNCHANGED <<stepRest, exec_log, qosVars, dispatchVars, node_streams,
                   chan, operator_buffer, emit_raised, results, router_tuples>>

\* Bound of the repository model: get_stream calls made by its users.
MaxGets == 3

\* The arguments the users of the repository pass to get_stream.
RepoIds == {None, "x", "y"}
RepoAliases == {None, "y", "z"}

\* StreamRepository.get_stream(stream_id, stream_alias) called by a user of
\* node A's repository; the repository is a set, so any matching stream may
\* be the one met first.
RepoGetStream(stream_id, stream_alias) ==
    /\ gets < MaxGets
    /\ gets' = gets + 1
    /\ \E i \in GetStreamIndexes(node_streams[DeployNode], stream_id, stream_alias) :
         LET g == GetStreamResult(node_streams[DeployNode], uuid_count,
                                  stream_id, stream_alias, i)
         IN /\ node_streams' = [node_streams EXCEPT ![DeployNode] = g.strs]
            /\ uuid_count' = g.uuids
            /\ last_get' = [stream_id |-> stream_id, stream_alias |-> stream_alias,
                            before |-> node_streams[DeployNode],
                            after |-> g.strs, returned |-> g.i]
    /\ UNCHANGED <<runtime_operators, place_log, operator_buffer, deployments,
                   deploy_raised, warnings, emitted, results, router_tuples,
                   emit_events, emit_raised, subscriptions,
                   othersDeploy>>

RepoNext ==
    \E stream_id \in RepoIds, stream_alias \in RepoAliases :
       RepoGetStream(stream_id, stream_alias)

\* The first create_deployment call for deployment d.
NewDeployment(d) ==
    /\ \A j \in 1..Len(deployments) : deployments[j].name # d
    /\ CreateDeployment(d)

OddDeployNext ==
    \/ \E stream_alias \in InputAliases : StreamAnnounced(stream_alias)
    \/ \E d \in OddDeploymentNames \cup {"in-and-alerts"} : NewDeployment(d)
    \/ \E stream_selector \in InputAliases : RouterTupleReceived(stream_selector)
    \/ \E t \in Threads : EmitCallOperator(t)
    \/ \E t \in Threads : OperatorBufferInput(t)
    \/ \E t \in Threads : TaskQueuePut(t)
    \/ \E t \in Threads : InputBufferedIter(t)
    \/ \E t \in Threads : OperatorInputBuffered(t)
    \/ \E t \in Threads : InputBufferedAdd(t)
    \/ \E t \in Threads : InputBufferedStamp(t)
    \/ \E t \in Threads : EmitStreams(t)
    \/ \E t \in Threads : EmitSequenceNoRead(t)
    \/ \E t \in Threads : EmitSequenceNoWrite(t)
    \/ DispatchTask
    \/ TaskDone
    \/ OperatorDispatchBatch
    \/ InputDispatchedIter
    \/ OperatorInputDispatched
    \/ InputDispatchedAdd
    \/ InputDispatchedStamp
    \/ OperatorCall
    \/ ResultReceivedIter
    \/ OperatorResultReceived
    \/ ResultReceivedAdd
    \/ RecordResultReceived
    \/ RecordComplete
    \/ ResultReceivedLog
    \/ ResultReceivedEmit
    \/ ExecuteTaskReturn

\* The deployments of DeployNext, each of which may be created again, and
\* the tuples the I/O loop then buffers for the operators; the task
\* dispatcher has not yet taken a task from the queue.
RedeployNext ==
    \/ \E stream_alias \in InputAliases : StreamAnnounced(stream_alias)
    \/ \E d \in DeploymentNames : CreateDeployment(d)
    \/ \E stream_selector \in InputAliases : RouterTupleReceived(stream_selector)
    \/ \E t \in Threads : EmitCallOperator(t)
    \/ \E t \in Threads : OperatorBufferInput(t)
    \/ \E t \in Threads : TaskQueuePut(t)
    \/ \E t \in Threads : InputBufferedIter(t)
    \/ \E t \in Threads : OperatorInputBuffered(t)
    \/ \E t \in Threads : InputBufferedAdd(t)
    \/ \E t \in Threads : InputBufferedStamp(t)
    \/ \E t \in Threads : EmitStreams(t)
    \/ \E t \in Threads : EmitSequenceNoRead(t)
    \/ \E t \in Threads : EmitSequenceNoWrite(t)

DeployNext ==
    \/ \E stream_alias \in InputAliases : StreamAnnounced(stream_alias)
    \/ \E d \in DeploymentNames : NewDeployment(d)
    \/ \E stream_selector \in InputAliases : RouterTupleReceived(stream_selector)
    \/ \E t \in Threads : EmitCallOperator(t)
    \/ \E t \in Threads : OperatorBufferInput(t)
    \/ \E t \in Threads : TaskQueuePut(t)
    \/ \E t \in Threads : InputBufferedIter(t)
    \/ \E t \in Threads : OperatorInputBuffered(t)
    \/ \E t \in Threads : InputBufferedAdd(t)
    \/ \E t \in Threads : InputBufferedStamp(t)
    \/ \E t \in Threads : EmitStreams(t)
    \/ \E t \in Threads : EmitSequenceNoRead(t)
    \/ \E t \in Threads : EmitSequenceNoWrite(t)
    \/ DispatchTask
    \/ TaskDone
    \/ OperatorDispatchBatch
    \/ InputDispatchedIter
    \/ OperatorInputDispatched
    \/ InputDispatchedAdd
    \/ InputDispatchedStamp
    \/ OperatorCall
    \/ ResultReceivedIter
    \/ OperatorResultReceived
    \/ ResultReceivedAdd
    \/ RecordResultReceived
    \/ RecordComplete
    \/ ResultReceivedLog
    \/ ResultReceivedEmit
    \/ ExecuteTaskReturn

\* The deployment that leaves the streams in and alerts with a fork each and
\* Detector's output chained to alerts, so that the I/O loop (a tuple received
\* for alerts) and the executor thread (a result of Detector) both emit on
\* alerts; and peers subscribing to the input stream.
EmitNext ==
    \/ \E stream_alias \in InputAliases : StreamAnnounced(stream_alias)
    \/ \E d \in EmitDeploymentNames : NewDeployment(d)
    \/ \E p \in SubscriberPeers : InputSubscribed(p)
    \/ \E stream_selector \in InputAliases : RouterTupleReceived(stream_selector)
    \/ \E t \in Threads : EmitProtocols(t)
    \/ \E t \in Threads : SendDataTuple(t)
    \/ \E t \in Threads : EmitCallOperator(t)
    \/ \E t \in Threads : OperatorBufferInput(t)
    \/ \E t \in Threads : TaskQueuePut(t)
    \/ \E t \in Threads : InputBufferedIter(t)
    \/ \E t \in Threads : OperatorInputBuffered(t)
    \/ \E t \in Threads : InputBufferedAdd(t)
    \/ \E t \in Threads : InputBufferedStamp(t)
    \/ \E t \in Threads : EmitStreams(t)
    \/ \E t \in Threads : EmitSequenceNoRead(t)
    \/ \E t \in Threads : EmitSequenceNoWrite(t)
    \/ DispatchTask
    \/ TaskDone
    \/ OperatorDispatchBatch
    \/ InputDispatchedIter
    \/ OperatorInputDispatched
    \/ InputDispatchedAdd
    \/ InputDispatchedStamp
    \/ OperatorCall
    \/ ResultReceivedIter
    \/ OperatorResultReceived
    \/ ResultReceivedAdd
    \/ RecordResultReceived
    \/ RecordComplete
    \/ ResultReceivedLog
    \/ ResultReceivedEmit
    \/ ExecuteTaskReturn

\* The deployments of DeployNext and connect_to_operators called for the
\* streams of the node, with the tuples the I/O loop then buffers for the
\* operators.
ConnectNext ==
    \/ \E stream_alias \in InputAliases : StreamAnnounced(stream_alias)
    \/ \E d \in DeploymentNames : NewDeployment(d)
    \/ \E i \in 1..Len(node_streams[DeployNode]) :
          \E operator_names \in SUBSET (ModuleFactories \cup {"Missing"}) :
             ConnectToOperators(i, operator_names)
    \/ \E stream_selector \in InputAliases : RouterTupleReceived(stream_selector)
    \/ \E t \in Threads : EmitCallOperator(t)
    \/ \E t \in Threads : OperatorBufferInput(t)
    \/ \E t \in Threads : TaskQueuePut(t)
    \/ \E t \in Threads : InputBufferedIter(t)
    \/ \E t \in Threads : OperatorInputBuffered(t)
    \/ \E t \in Threads : InputBufferedAdd(t)
    \/ \E t \in Threads : InputBufferedStamp(t)
    \/ \E t \in Threads : EmitStreams(t)
    \/ \E t \in Threads : EmitSequenceNoRead(t)
    \/ \E t \in Threads : EmitSequenceNoWrite(t)

-----------------------------------------------------------------------------

(***************************************************************************)
(* The specifications.                                                     *)
(***************************************************************************)
\* The runtime before any message: nothing deployed is running.
RuntimeIdle ==
    /\ RuntimeInit
    /\ use_batching = [o \in Operators |-> TRUE]

InitCodec == CodecInit /\ RuntimeIdle /\ ClusterInit /\ DeployInit

SpecCodec == InitCodec /\ [][CodecNext]_vars

InitRuntime == CodecInit /\ RuntimeInit /\ ClusterInit /\ DeployInit

SpecMalformed == InitCodec /\ [][MalformedNext]_vars

SpecRuntime == InitRuntime /\ [][RuntimeNext]_vars

\* The runtime of SpecRuntime with peers subscribing to stream s1, on which
\* both the I/O loop (a data_tuple for s1) and the worker (O1's result) emit.
SubscribersNext ==
    \/ \E t \in Threads : CallOperatorRead(t)
    \/ \E t \in Threads : BufferInput(t)
    \/ \E t \in Threads : PutTask(t)
    \/ \E t \in Threads : InputBufferedIter(t)
    \/ \E t \in Threads : OperatorInputBuffered(t)
    \/ \E t \in Threads : InputBufferedAdd(t)
    \/ \E t \in Threads : InputBufferedStamp(t)
    \/ \E t \in Threads : EmitChained(t)
    \/ \E t \in Threads : EmitIncRead(t)
    \/ \E t \in Threads : EmitIncWrite(t)
    \/ \E selector \in TupleSelectors : TupleReceived(selector)
    \/ DispatchTask
    \/ TaskDone
    \/ DispatchBatch
    \/ PopInput
    \/ InputDispatchedIter
    \/ OperatorInputDispatched
    \/ InputDispatchedAdd
    \/ InputDispatchedStamp
    \/ CallRaises
    \/ Call
    \/ ResultReceivedIter
    \/ OperatorResultReceived
    \/ ResultReceivedAdd
    \/ RecordResultReceived
    \/ RecordComplete
    \/ ResultReceivedLog
    \/ ResultEmit
    \/ ExecuteTaskReturn
    \/ \E p \in StreamSubscribers : StreamSubscribe("s1", p)
    \/ \E t \in Threads : EmitProtocolsIter(t)
    \/ \E t \in Threads : EmitSendDataTuple(t)

SpecSubscribers == InitRuntime /\ [][SubscribersNext]_vars

InitCluster == CodecInit /\ RuntimeIdle /\ ClusterInit /\ DeployInit

SpecStreams == InitCluster /\ [][StreamsNext]_vars

SpecModules == InitCluster /\ [][ModulesNext]_vars

\* Module transfers with a peer that also writes objects of an unknown op.
DispatchNext ==
    \/ \E l \in NodeLinks : ConnectionMade(l)
    \/ \E d \in Dirs : ConnectDownstreamReceived(d[1], d[2])
    \/ \E d \in Dirs : ConnectDownstreamOkReceived(d[1], d[2])
    \/ \E l \in ClientLinks : UploaderConnectionMade(l)
    \/ \E d \in Dirs : InitModuleTransferReceived(d[1], d[2])
    \/ \E d \in Dirs : InitModuleTransferReplyReceived(d[1], d[2])
    \/ \E d \in Dirs : FileReceived(d[1], d[2])
    \/ \E d \in Dirs : TransferFileOkReceived(d[1], d[2])
    \/ \E d \in Dirs, status \in {None, "success"} :
          UnknownOpSent(d[1], d[2], status)
    \/ \E d \in Dirs : ObjectIgnored(d[1], d[2])

SpecDispatch == InitCluster /\ [][DispatchNext]_vars

SpecTuples == InitCluster /\ [][TuplesNext]_vars

SpecDeploy == InitCluster /\ [][DeployNext]_vars

SpecEmit == InitCluster /\ [][EmitNext]_vars

SpecRedeploy == InitCluster /\ [][RedeployNext]_vars

SpecOddDeploy == InitCluster /\ [][OddDeployNext]_vars

SpecConnect == InitCluster /\ [][ConnectNext]_vars

\* One stream announced by a source in the fully connected cluster.  Every
\* frame written to a transport is read by the peer's event loop and handled,
\* so each handler is weakly fair on each connection.
SpecRing ==
    /\ InitCluster /\ [][RingNext]_vars
    /\ \A d \in Dirs :
          /\ WF_vars(ConnectDownstreamReceived(d[1], d[2]))
          /\ WF_vars(ConnectDownstreamOkReceived(d[1], d[2]))
          /\ WF_vars(RingAnnouncementReceived(d[1], d[2]))
          /\ WF_vars(CreateConnectorStreamOkReceived(d[1], d[2]))

\* Node A serving subscribe requests and migrating its streams to its peers,
\* with tuples arriving for the streams.
PublishNext ==
    \/ \E stream_alias \in InputAliases : StreamAnnounced(stream_alias)
    \/ \E stream_alias \in InputAliases, p \in SubscriberPeers :
          PublishSubscribeReceived(stream_alias, p)
    \/ \E i \in 1..MaxStreamCreations, p \in SubscriberPeers : MigrateStream(i, p)
    \/ \E stream_selector \in InputAliases : RouterTupleReceived(stream_selector)
    \/ \E t \in Threads : EmitProtocols(t)
    \/ \E t \in Threads : SendDataTuple(t)
    \/ \E t \in Threads : EmitSequenceNoRead(t)
    \/ \E t \in Threads : EmitSequenceNoWrite(t)

SpecPublish == InitCluster /\ [][PublishNext]_vars

SpecRepo == InitCluster /\ [][RepoNext]_vars

-----------------------------------------------------------------------------
(***************************************************************************)
(* Claims about the framing, checked under SpecCodec.                      *)
(***************************************************************************)

\* The bytes of the first n frames of fs.
RECURSIVE EncodeFrames(_, _)
EncodeFrames(fs, n) ==
    IF n = 0 \/ fs = <<>> THEN <<>>
    ELSE EncodeFrame(Head(fs)) \o EncodeFrames(Tail(fs), n - 1)

\* C9: round trip under splitting.  When the bytes of one frame X are cut at
\* any byte position and the two non-empty parts are handed to data_received
\* in two calls, the receiver takes both parts (no call raises, so the
\* transport stays open) and delivers exactly one message, equal to X.
C9_SplitRoundTrip ==
    ( /\ Len(sent) = 1
      /\ rx_calls # <<>>
      /\ Len(rx_calls) <= 2 )
    => /\ ~transport_closed
       /\ rx_count < Len(EncodeFrame(sent[1])) => delivered = <<>>
       /\ rx_count = Len(EncodeFrame(sent[1])) => delivered = MessagesOf(sent)

\* C10: several frames in one read.  When one data_received call, made on a
\* receiver that holds no undelivered bytes, carries k >= 2 complete frames
\* (possibly followed by a partial one), that call delivers all k messages in
\* wire order.
C10_AllFramesOfOneReadDelivered ==
    LET complete == FramesCompleteBy(sent, rx_count)
        before == rx_count - rx_calls[Len(rx_calls)]
    IN ( /\ rx_calls # <<>>
         /\ Len(EncodeFrames(sent, rx_frames_before)) = before
         /\ rx_delivered_before = rx_frames_before
         /\ complete - rx_frames_before >= 2 )
       => /\ Len(delivered) - rx_delivered_before = complete - rx_frames_before
          /\ delivered = MessagesOf(Take(sent, complete))

-----------------------------------------------------------------------------
(***************************************************************************)
(* Claims about emit, the operator runtime and the QoS monitor, checked    *)
(* under SpecRuntime.                                                      *)
(***************************************************************************)

\* No emit call on stream s is in progress on any thread.
NoEmitInProgress(s) ==
    \A t \in Threads : \A k \in 1..Len(stack[t]) : stack[t][k].stream # s

\* C5: every emit on a stream S (chained emits and emits without operators
\* or subscribers included) raises S.sequence_no by exactly one, so that once
\* n emit calls on S have completed and none is in progress the counter is n.
C5_SequenceNoCountsEmits ==
    \A s \in Streams : NoEmitInProgress(s) => sequence_no[s] = emits_done[s]

\* C6: emits on the same stream from the I/O loop and from the worker thread
\* are serialised: no increment of sequence_no is lost (the counter always
\* equals the number of increments made) and no two emit calls hand the same
\* sequence_no of a stream to an operator.
C6_ConcurrentEmitsSerialised ==
    /\ \A s \in Streams : sequence_no[s] = emits_done[s]
    /\ \A h1, h2 \in handed :
         ( /\ h1.op = h2.op
           /\ h1.source = h2.source
           /\ h1.seq = h2.seq ) => h1.emit = h2.emit

\* C7: for every operator and source stream, the source sequence numbers of
\* the inputs passed to call are strictly increasing in the order passed.
C7_CallInputsStrictlyIncreasing ==
    \A o \in Operators : \A i, j \in 1..Len(called[o]) :
        (i < j /\ called[o][i][1] = called[o][j][1])
            => called[o][i][2] < called[o][j][2]

\* C8: every completed QoS record that carries all three timestamps has
\* input_buffered_at <= input_dispatched_at <= result_received_at.
C8_RecordTimestampsOrdered ==
    \A r \in completed_records :
        (r.input_buffered_at # 0 /\ r.input_dispatched_at # 0)
            => /\ r.input_buffered_at <= r.input_dispatched_at
               /\ r.input_dispatched_at <= r.result_received_at

\* The execute_task calls of batching operators.
BatchExecutions == { k \in 1..Len(exec_log) : use_batching[exec_log[k].op] }

\* The callbacks a batch gives rise to: the k-th input's callback with the
\* k-th element of the result of call.
ExpectedCallbacks(taken) ==
    [k \in 1..Len(taken) |-> [input |-> taken[k], result |-> CallResult(taken)[k]]]

IsPrefix(s, t) == Len(s) <= Len(t) /\ s = SubSeq(t, 1, Len(s))

RECURSIVE TakenUpTo(_, _)
\* The inputs operator o's execute_task calls have taken, in order, over the
\* first k calls of the log.
TakenUpTo(o, k) ==
    IF k = 0 THEN <<>>
    ELSE TakenUpTo(o, k - 1) \o (IF exec_log[k].op = o THEN exec_log[k].taken ELSE <<>>)

\* C17: for a batching operator, the inputs present in its buffer when
\* execute_task swaps the buffer are dispatched as one batch, in arrival
\* order; call is invoked once, on that batch; and the callback of the i-th
\* input is invoked with the i-th element of the result, the callbacks firing
\* in input order.
C17_BatchedExecution ==
    /\ \A k \in BatchExecutions :
         LET e == exec_log[k] IN
           /\ ~e.swapped => e.calls = <<>>
           /\ e.taken = e.present
           /\ Len(e.calls) <= 1
           /\ e.calls # <<>> => e.calls[1] = BatchData(e.present)
           /\ e.callbacks # <<>> => e.calls # <<>>
           /\ IsPrefix(e.callbacks, ExpectedCallbacks(e.present))
           /\ e.done => /\ Len(e.calls) = 1
                        /\ e.callbacks = ExpectedCallbacks(e.present)
    /\ \A o \in Operators :
         use_batching[o] =>
           arrivals[o] = TakenUpTo(o, Len(exec_log)) \o input_buffer[o]

C17_Witness ==
    \E k \in BatchExecutions :
       /\ exec_log[k].swapped
       /\ Len(exec_log[k].present) >= 2
       /\ exec_log[k].done
       /\ Len(exec_log[k].callbacks) = Len(exec_log[k].present)

\* The execute_task calls that have started and not ended.
RunningExecutions ==
    { k \in 1..Len(exec_log) : ~exec_log[k].done /\ ~exec_log[k].raised }

\* The operators whose execute_task was started, in the order of the starts.
StartedOperators == [k \in 1..Len(exec_log) |-> exec_log[k].op]

\* C18: at most one execute_task is running on the node at any time: the
\* dispatcher starts the next task only once the previous one has ended, and
\* tasks are started in the order in which they were put on the task queue.
C18_OneTaskAtATime ==
    /\ Cardinality(RunningExecutions) <= 1
    /\ \A k \in 1..Len(exec_log) :
          k < Len(exec_log) => exec_log[k].done \/ exec_log[k].raised
    /\ IsPrefix(StartedOperators, put_log)

C18_Witness ==
    /\ Len(exec_log) >= 2
    /\ exec_log[1].done
    /\ exec_log[1].op # exec_log[2].op
    /\ RunningExecutions = {2}
    /\ task_queue # <<>>

\* The executions whose operator call raised after the inputs were taken.
RaisedInCall ==
    { j \in 1..Len(exec_log) : exec_log[j].error = "call" }

\* C27: if an operator's call raises during execute_task the node keeps
\* running: the dispatcher goes on to dequeue and execute later tasks (and
\* the I/O loop keeps serving connections).  TaskDispatcher.start never ends
\* because a call raised.
C27_DispatcherSurvivesRaise ==
    RaisedInCall # {} => dispatcher_pc # "failed"

\* How often operator o has been put on the task queue.
PutsOf(o) == Cardinality({ j \in 1..Len(put_log) : put_log[j] = o })

\* The appends of o that found its buffer empty: the first input of every
\* batch taken so far and the first input of the buffer if it holds any.
FirstAppends(o) ==
    Cardinality({ k \in 1..Len(exec_log) :
                    exec_log[k].op = o /\ exec_log[k].swapped /\ exec_log[k].taken # <<>> })
    + (IF input_buffer[o] # <<>> THEN 1 ELSE 0)

\* The calls of call_operator for o that have appended and not yet reached
\* the put; first: only those whose append returned index 0.
PendingPuts(o, first) ==
    Cardinality({ t \in Threads :
        /\ stack[t] # <<>>
        /\ Top(t).pc = "enqueue"
        /\ Top(t).cur[1] = o
        /\ first => Top(t).index = 0 })

QueuedTasks(o) == Cardinality({ j \in 1..Len(task_queue) : task_queue[j] = o })

\* C30: with batching an operator is put on the task queue only by an append
\* that finds its buffer empty (index 0), so all the inputs that arrive
\* before the swap share one queued task; without batching it is put once
\* per append.
C30_OneTaskPerBatch ==
    \A o \in Operators :
       IF use_batching[o]
       THEN /\ PutsOf(o) = FirstAppends(o) - PendingPuts(o, TRUE)
            /\ QueuedTasks(o) <= 1
       ELSE PutsOf(o) = Len(arrivals[o]) - PendingPuts(o, FALSE)

\* A batching operator has taken two inputs in one execution, queued once;
\* and a non-batching operator has been queued twice.
C30_Witness ==
    /\ \E o \in Operators :
          /\ use_batching[o]
          /\ PutsOf(o) = 1
          /\ \E k \in 1..Len(exec_log) : exec_log[k].op = o /\ Len(exec_log[k].taken) >= 2
    /\ \E o \in Operators : ~use_batching[o] /\ PutsOf(o) >= 2

-----------------------------------------------------------------------------
(***************************************************************************)
(* Claims about stream announcements, checked under SpecStreams.           *)
(***************************************************************************)

\* C1: no echo to the source.  For every stream of a node and every peer
\* from which the node has received a create_connector_stream for that
\* stream, the subscriber set of the stream does not contain that peer:
\* neither the peer's ClusterProtocol nor the StreamDataSenderProtocol of
\* its connection, the object tuples are sent through.
C1_NoEchoToSource ==
    \A n \in Nodes : \A sp \in stream_sources[n] :
        LET protocols == node_streams[n][sp[1]].protocols
        IN /\ ClusterProtocol(n, sp[2]) \notin protocols
           /\ StreamDataSenderProtocol(n, sp[2]) \notin protocols

-----------------------------------------------------------------------------
(***************************************************************************)
(* Claims about module transfer, checked under SpecModules.                *)
(***************************************************************************)

\* C2: module broadcast excludes the sender.  Every file_received of a node
\* for a module that came over the connection with P started exactly one
\* transfer to each peer of the node's peer set other than P and none to P.
C2_ModuleBroadcastExcludesSender ==
    \A r \in receipts : \A q \in PeersOf(r.node) :
        r.started[q] = IF q \in r.peers \ {r.from} THEN 1 ELSE 0

\* C3: no module ping-pong.  When one module has been uploaded (to A, with
\* B and C connected to A), A sends at most one init_module_transfer to B
\* and to C, and neither B nor C ever sends an init_module_transfer back to
\* A.
C3_SingleUploadNoPingPong ==
    uploads = 1 =>
        /\ inits_sent[<<"A", "B">>] <= 1
        /\ inits_sent[<<"A", "C">>] <= 1
        /\ inits_sent[<<"B", "A">>] = 0
        /\ inits_sent[<<"C", "A">>] = 0

\* A transfer is in progress after the first k events of a receiver's log:
\* a request was accepted and no file frame has arrived since.
InProgressAfter(log, k) ==
    \E j \in 1..k :
        /\ log[j].ev = "init" /\ log[j].reply = "accepted"
        /\ \A i \in (j + 1)..k : log[i].ev # "file"

\* The accepted replies in flight towards a sender.
AcceptedInFlight(d) ==
    Cardinality({ i \in 1..Len(chan[d]) : chan[d][i] = InitModuleTransferOk })

\* C4: one transfer at a time per connection.  On every connection a
\* receiver accepts an init_module_transfer exactly when no transfer is in
\* progress on it; a request that arrives while one is in progress is
\* rejected and leaves the receiving module name as it was; once the file
\* frame has arrived the next request is accepted again.  Every accepted
\* request is answered by the sender with exactly one file frame: the
\* files sent are the accepted replies the sender has handled, and a file
\* frame only arrives while a transfer is in progress.
C4_OneTransferAtATime ==
    /\ \A e \in NodeEndpoints : \A k \in 1..Len(rx_log[e]) :
          LET ev == rx_log[e][k]
              busy == InProgressAfter(rx_log[e], k - 1)
          IN /\ ev.ev = "init" =>
                  /\ (ev.reply = "accepted") <=> ~busy
                  /\ ev.reply = "accepted" => ev.after = ev.name
                  /\ ev.reply # "accepted" =>
                        (ev.reply = "rejected" /\ ev.after = ev.before
                            /\ ev.before # None)
             /\ ev.ev = "file" => busy
    /\ \A e \in NodeEndpoints :
          files_sent[<<e[2], e[1]>>] + AcceptedInFlight(e) = accepted_sent[e]

\* C4 witness: on one connection a request was rejected while a transfer
\* was in progress, the file frame of that transfer arrived, and a later
\* request was accepted.
C4_Witness ==
    \E e \in NodeEndpoints : \E i, j, k \in 1..Len(rx_log[e]) :
        /\ i < j /\ j < k
        /\ rx_log[e][i].ev = "init" /\ rx_log[e][i].reply = "rejected"
        /\ rx_log[e][j].ev = "file"
        /\ rx_log[e][k].ev = "init" /\ rx_log[e][k].reply = "accepted"

-----------------------------------------------------------------------------
(***************************************************************************)
(* Claims about the handshake, checked under SpecStreams.                  *)
(***************************************************************************)

\* The connections node n records for peer p.
ConnectionsFor(n, p) ==
    { c \in cluster_connections[n] : PeerOf(c.protocol) = p }

\* C11: two-node handshake.  Once initiator B has sent connect_downstream
\* to acceptor A and handled the success reply, A's peer set holds exactly
\* one connection for B, tagged ingress, and B's holds exactly one for A,
\* tagged egress; before B has handled the reply B's peer set holds no
\* connection for A, and an acceptor never records its peer as egress nor
\* an initiator as ingress.
C11_TwoNodeHandshake ==
    \A l \in NodeLinks :
        /\ (HandshakeComplete(l) /\ l \notin lost /\ <<l[2], l[1]>> \notin lost) =>
              /\ ConnectionsFor(l[2], l[1]) =
                    {[protocol |-> ClusterProtocol(l[2], l[1]), direction |-> "ingress"]}
              /\ ConnectionsFor(l[1], l[2]) =
                    {[protocol |-> ClusterProtocol(l[1], l[2]), direction |-> "egress"]}
        /\ ~HandshakeComplete(l) => ConnectionsFor(l[1], l[2]) = {}

\* C11 witness: B has completed the handshake with A and each has recorded
\* the other.
C11_Witness ==
    /\ HandshakeComplete(<<"B", "A">>)
    /\ ConnectionsFor("A", "B") # {}
    /\ ConnectionsFor("B", "A") # {}

\* m is a broadcast of the orchestrator: a stream announcement or the
\* request that starts a module transfer.
IsBroadcast(m) ==
    /\ Key(m, "op") \in {"create_connector_stream", "init_module_transfer"}
    /\ ~HasKey(m, "status")

\* C12: no broadcast before the handshake completes.  On every connection
\* between nodes the acceptor writes no create_connector_stream and no
\* init_module_transfer request before it has written the success reply,
\* so none precedes the reply on the wire, and the initiator writes none
\* before it has handled the reply.
C12_NoBroadcastBeforeHandshake ==
    \A l \in NodeLinks :
        /\ \A i, j \in 1..Len(chan[<<l[2], l[1]>>]) :
              (i < j /\ chan[<<l[2], l[1]>>][j] = ConnectDownstreamOk)
                  => ~IsBroadcast(chan[<<l[2], l[1]>>][i])
        /\ ~HandshakeComplete(l) =>
              \A i \in 1..Len(chan[l]) : ~IsBroadcast(chan[l][i])

\* C13: synchronisation on a new connection.  For every connection a node
\* has added, the node wrote one create_connector_stream per stream it held
\* at that moment, and has started, then or since, at least one module
\* transfer to the new peer per module it held at that moment.
C13_NewConnectionSynchronised ==
    \A e \in sync_log :
        /\ e.announced = e.streams
        /\ inits_sent[<<e.node, e.peer>>] >= e.modules

\* Every node connection has completed its handshake, and the cluster was
\* connected before any node held a module.
ClusterConnectedFirst ==
    /\ \A l \in NodeLinks : HandshakeComplete(l)
    /\ \A e \in sync_log : e.modules = 0

\* The names of the modules whose upload a client has started.
UploadedNames == { ModuleOf(l[1]) : l \in { c \in connected : c[1] \in Uploaders } }

HeldNames(n) == { apps[n][j].name : j \in 1..Len(apps[n]) }

\* Module name m can still reach a node: an init_module_transfer naming it is
\* in flight, or a receiver has accepted it and awaits its file.  A module is
\* named to a peer only by these (distribute_module is called from
\* file_received alone, with the name the receiver accepted).
StillTravelling(m) ==
    \/ \E d \in Dirs : \E i \in 1..Len(chan[d]) : chan[d][i] = InitModuleTransfer(m)
    \/ \E e \in DOMAIN receiving_module_name : receiving_module_name[e] = m

\* Node n has missed the uploaded module m for good.
Missed(n, m) ==
    /\ m \in UploadedNames
    /\ m \notin HeldNames(n)
    /\ ~StillTravelling(m)

\* A missed module stays missed: no later step brings it to the node.
MissedForGood ==
    [][\A n \in Nodes : \A m \in {"m1", "m2"} :
          Missed(n, m) => Missed(n, m)']_vars

\* C22: for any sequence of module uploads to nodes of a connected cluster,
\* also two modules uploaded back to back whose transfers overlap on one
\* connection, with every message delivered and no connection lost every
\* node eventually holds every uploaded module name: no node ever misses an
\* uploaded module for good.
C22_ModulesAgree ==
    ClusterConnectedFirst =>
       \A n \in Nodes : \A m \in UploadedNames : ~Missed(n, m)


\* The create_connector_stream requests on the way from n to q.
AnnouncementsTo(ch, n, q) ==
    { i \in 1..Len(ch[<<n, q>>]) :
         Key(ch[<<n, q>>][i], "op") = "create_connector_stream" /\ ~HasKey(ch[<<n, q>>][i], "status") }

\* C25: whenever a stream a node did not know is created on it after its
\* peers connected (by a create_connector_stream from an origin, by pipeline
\* placement or by a subscribe), the node sends create_connector_stream for it
\* to every peer connection except the origin; a request for a stream it
\* already knows makes it send nothing.  Stated of every step that leaves the
\* node's peer set alone: q is sent an announcement exactly when a stream was
\* created and q is not the peer whose message the step handled.
C25_NewStreamAnnounced ==
    [][\A n \in Nodes :
         (lost = {} /\ cluster_connections'[n] = cluster_connections[n]) =>
            \A q \in { PeerOf(c.protocol) : c \in cluster_connections[n] } :
               LET created == Len(node_streams'[n]) > Len(node_streams[n])
                   origin == Len(chan'[<<q, n>>]) < Len(chan[<<q, n>>])
                   announced == Cardinality(AnnouncementsTo(chan', n, q))
                                   - Cardinality(AnnouncementsTo(chan, n, q))
               IN announced = (IF created /\ ~origin THEN 1 ELSE 0)]_vars

\* No create_connector_stream request is on its way between two nodes.
AnnouncementsQuiet ==
    \A d \in Dirs : (d[1] \in Nodes /\ d[2] \in Nodes) =>
       AnnouncementsTo(chan, d[1], d[2]) = {}

\* C26: in any connected topology, cycles included (three fully connected
\* nodes), announcing one stream produces finitely many
\* create_connector_stream messages: with every message delivered the
\* cluster reaches a state after which no announcement is in flight.
C26_AnnouncementsTerminate == <>[]AnnouncementsQuiet

-----------------------------------------------------------------------------
(***************************************************************************)
(* Claims about data tuples (SpecTuples) and peer loss (SpecStreams).       *)
(***************************************************************************)

\* How many times tuple t was handed to the sink client.
TimesReceived(t) ==
    Cardinality({ i \in 1..Len(sink_received) : sink_received[i].tuple = t })

\* C14: stream migration plus subscription.  Whatever the order of stream
\* creation and peer connection, a tuple pushed once into raw on A's side
\* is never handed to the client subscribed to raw on B more than once,
\* and every data_tuple the client receives names the stream raw.
C14_TupleReachesSinkOnce ==
    /\ \A k \in 1..pushed : TimesReceived(SourceTuples[k]) <= 1
    /\ \A i \in 1..Len(sink_received) :
          sink_received[i].stream_selector = StreamAlias

\* C24: after a single tuple is pushed into a stream on A in the two-node
\* cluster A-B, whatever the order of stream creation, announcement and
\* handshake, the tuple travels along subscriptions only: a data_tuple that
\* B received from A is never sent back to A (so finitely many frames are
\* sent and sequence_no stops growing).  The only tuple is pushed by A's
\* source, so every data_tuple B sends to A is one it received from A.
C24_NoTupleEcho ==
    (<<"C", "A">> \notin connected /\ pushed <= 1) =>
       \A i \in 1..Len(chan[<<"B", "A">>]) :
          Key(chan[<<"B", "A">>][i], "op") # "data_tuple"

\* C15: peer loss.  Once a node has lost the transport of its connection
\* with peer P, its peer set holds no connection for P and no stream of the
\* node has P's data sender among its subscribers.
C15_PeerLossDeregisters ==
    \A e \in lost :
        /\ ConnectionsFor(e[1], e[2]) = {}
        /\ \A i \in 1..Len(node_streams[e[1]]) :
              StreamDataSenderProtocol(e[1], e[2])
                  \notin node_streams[e[1]][i].protocols

-----------------------------------------------------------------------------
(***************************************************************************)
(* Claims about deployments, checked under SpecDeploy and SpecRedeploy.    *)
(***************************************************************************)
\* The position of the stream of node A with the given alias, 0 without one.
StreamAt(stream_alias) ==
    LET strs == node_streams[DeployNode]
        at == { i \in 1..Len(strs) : strs[i].stream_alias = stream_alias }
    IN IF at = {} THEN 0 ELSE CHOOSE i \in at : TRUE

\* Node A held the streams in and alerts when its only deployment d was
\* created: they precede the output stream the deployment made.
DeployedAlone(d) ==
    /\ Len(deployments) = 1
    /\ deployments[1].name = d
    /\ ~deploy_raised
    /\ Len(node_streams[DeployNode]) >= 3
    /\ {StreamAt("in"), StreamAt("alerts")} = {1, 2}

\* call_operator has handed the tuple to the operator's buffer_input.
BufferedFor(operator, data_tuple) ==
    \E t \in Threads : \E k \in 1..Len(emit_events[t]) :
       /\ emit_events[t][k].ev = "call"
       /\ emit_events[t][k].fork[1].name = operator
       /\ emit_events[t][k].tuple = data_tuple

EmittedOn(i, data_tuple) ==
    \E t \in Threads : \E k \in 1..Len(emitted[t]) :
       emitted[t][k].stream = i /\ emitted[t][k].tuple = data_tuple

\* The emit call numbered e of thread t has returned.
EmitReturned(t, e) ==
    \E k \in 1..Len(emit_events[t]) :
       emit_events[t][k].ev = "inc" /\ emit_events[t][k].emit = e

\* Node A has nothing left to do: no emit is in progress, no input is
\* buffered, no task is queued and none is being executed.
NodeQuiet ==
    /\ \A t \in Threads : stack[t] = <<>>
    /\ \A o \in ModuleFactories : operator_buffer[o] = <<>>
    /\ task_queue = <<>>
    /\ worker.pc = "idle"

\* After the deployment d, every tuple emitted on in is buffered for Detector
\* (when the emit returns it has been), and every Detector output is emitted
\* on alerts (when the node has nothing left to do it has been).
Wired(d) ==
    DeployedAlone(d) =>
      /\ \A t \in Threads :
            \A k \in (deployments[1].emits_before[t] + 1)..Len(emitted[t]) :
               (emitted[t][k].stream = StreamAt("in") /\ EmitReturned(t, k))
                  => BufferedFor("Detector", emitted[t][k].tuple)
      /\ NodeQuiet =>
            \A j \in 1..Len(results) :
               results[j].operator = "Detector"
                  => EmittedOn(StreamAt("alerts"), results[j].tuple)

\* C16 as stated: deploying {streams: [in], pipelines: {in: {Detector:
\* [alerts]}}} on a node that holds the streams in and alerts and a module
\* exporting Detector wires in -> Detector -> alerts: every tuple emitted on
\* in is buffered for Detector and every Detector output is emitted on alerts.
C16_PipelinePlacement == Wired("in-only")

\* The same with alerts listed in the deployment's streams, {streams: [in,
\* alerts], pipelines: {in: {Detector: [alerts]}}}: the output stream is
\* chained to alerts, and still an output is lost when operator_result_received
\* raises before output.emit (the QoS records are walked without a lock).
PipelinePlacementListed == Wired("in-and-alerts")

\* The place_operator calls made with the name n.
PlaceCalls(n) == { j \in 1..Len(place_log) : place_log[j].name = n }

\* C21: place_operator(n) is idempotent: called one or more times with a
\* name n that a module exports, it instantiates the operator once, returns
\* the same instance every time, and the runtime's operator set holds exactly
\* one operator named n.
C21_PlaceOperatorIdempotent ==
    \A n \in ModuleFactories :
       PlaceCalls(n) # {} =>
          /\ \A i, j \in PlaceCalls(n) : place_log[i].returned = place_log[j].returned
          /\ \A j \in PlaceCalls(n) : place_log[j].returned \in runtime_operators
          /\ Cardinality(OperatorsNamed(runtime_operators, n)) = 1

C21_Witness ==
    /\ Cardinality(PlaceCalls("Detector")) >= 2
    /\ Cardinality(OperatorsNamed(runtime_operators, "Detector")) = 1

\* The order within one emit (stream_api.py 78-96), checked under SpecEmit.

\* The steps ev of the emit call numbered e of thread t, by their positions
\* in the thread's log.
EmitSteps(t, e, ev) ==
    { j \in 1..Len(emit_events[t]) :
        emit_events[t][j].ev = ev /\ emit_events[t][j].emit = e }

\* The emit calls the emit numbered e of thread t has made on its chained
\* streams.
EmitChains(t, e) ==
    { j \in 1..Len(emit_events[t]) :
        emit_events[t][j].ev = "emit" /\ emit_events[t][j].parent = e }

\* The emit entered at position a of thread t's log has made its steps in
\* program order so far: its calls (one per fork) precede its sends (one per
\* subscribed protocol), which precede the emits on its chained streams, all
\* before its increment; once it has incremented it has made all of them.
EmitInOrder(t, a) ==
    LET log == emit_events[t]
        e == log[a].emit
        calls == EmitSteps(t, e, "call")
        sends == EmitSteps(t, e, "send")
        chains == EmitChains(t, e)
        incs == EmitSteps(t, e, "inc")
    IN /\ \A c \in calls : \A x \in sends \cup chains \cup incs : a < c /\ c < x
       /\ \A x \in sends : \A k \in chains \cup incs : a < x /\ x < k
       /\ \A k \in chains : \A b \in incs : a < k /\ k < b
       /\ Cardinality(incs) <= 1
       /\ \A c \in calls : /\ log[c].stream = log[a].stream
                           /\ log[c].tuple = log[a].tuple
       /\ \A x \in sends : log[x].tuple = log[a].tuple
       /\ \A k \in chains : log[k].tuple = log[a].tuple
       /\ \A b \in incs :
             /\ { log[c].fork : c \in calls } = log[a].operators
             /\ Cardinality(calls) = Cardinality(log[a].operators)
             /\ { log[x].protocol : x \in sends } = log[a].protocols
             /\ Cardinality(sends) = Cardinality(log[a].protocols)
             /\ { log[k].stream : k \in chains } = log[a].streams
             /\ Cardinality(chains) = Cardinality(log[a].streams)
             /\ \A k \in chains : EmitSteps(t, log[k].emit, "inc") # {}

\* Every fork of that emit was enqueued with the sequence_no its increment
\* then read, the pre-increment value.
EmitPreIncrement(t, a) ==
    LET log == emit_events[t]
        e == log[a].emit
    IN \A b \in EmitSteps(t, e, "inc") : \A c \in EmitSteps(t, e, "call") :
          log[c].seq = log[b].seq

\* The program order alone, which no interleaving of the threads disturbs.
EmitProgramOrder ==
    \A t \in Threads : \A a \in 1..Len(emit_events[t]) :
       emit_events[t][a].ev = "emit" => EmitInOrder(t, a)

\* C23: within one emit(t) on a stream, first the tuple is enqueued for every
\* (operator, output) fork, then one data_tuple goes to every subscribed
\* peer, then emit runs on every chained stream, and only then sequence_no
\* is incremented; every fork is enqueued with the pre-increment sequence_no.
\* The steps an emit has made so far are in that order, and an emit that has
\* incremented sequence_no has made all of them.
C23_EmitOrder ==
    \A t \in Threads : \A a \in 1..Len(emit_events[t]) :
       emit_events[t][a].ev = "emit" =>
          EmitInOrder(t, a) /\ EmitPreIncrement(t, a)

\* The deployment d is the only one made so far.
OnlyDeployment(d) == Len(deployments) = 1 /\ deployments[1].name = d

\* The forks of the streams of node A.
AllForks ==
    UNION { node_streams[DeployNode][i].operators : i \in 1..Len(node_streams[DeployNode]) }

\* C28: a pipeline key naming an operator that no module exports is skipped:
\* a warning is logged, deploy_pipelines completes without raising, no fork
\* is added for that key (nothing below it is wired), and the sibling
\* branches are still wired.  Deployed: in: {Missing: [alerts], Detector:
\* [alerts]}.
C28_UnknownOperatorSkipped ==
    OnlyDeployment("missing") =>
       /\ \E j \in 1..Len(warnings) : warnings[j] = <<"Operator not found", "Missing">>
       /\ ~deploy_raised
       /\ \A f \in AllForks : f[1] # NoOperator
       /\ \E f \in node_streams[DeployNode][StreamAt("in")].operators :
             f[1].name = "Detector"

\* C29: an operator key reached at the top level (source = null) is placed
\* without an input, and the deployment proceeds without raising; the
\* destinations under that key are wired from that operator's own output
\* stream, never from the stream of a previously processed sibling key.
\* Deployed: {in: [], Detector: [alerts]}.
C29_TopLevelOperator ==
    OnlyDeployment("top-operator") =>
       /\ OperatorsNamed(runtime_operators, "Detector") # {}
       /\ \A f \in AllForks : f[1].name # "Detector"
       /\ ~deploy_raised
       /\ node_streams[DeployNode][StreamAt("in")].streams = {}

-----------------------------------------------------------------------------
(***************************************************************************)
(* Claims about the stream repository, checked under SpecRepo.             *)
(***************************************************************************)
\* The streams of strs that one of the selectors given to get_stream names.
Named(strs, stream_id, stream_alias) ==
    { i \in 1..Len(strs) :
        \/ stream_id # None /\ MatchesSelector(strs[i], stream_id)
        \/ stream_alias # None /\ MatchesSelector(strs[i], stream_alias) }

NamedByLastGet == Named(last_get.before, last_get.stream_id, last_get.stream_alias)

\* C19: get_stream(stream_id, stream_alias) returns an existing stream
\* whenever one of the selectors given equals the id or the alias of a stream
\* of the repository, whichever argument matched (so get_stream(id = x, alias
\* = z) returns the stream with id x for any z), and creates no stream.
C19_GetStreamReturnsExisting ==
    (gets > 0 /\ NamedByLastGet # {}) =>
       /\ last_get.returned \in NamedByLastGet
       /\ last_get.after = last_get.before

\* C20: get_stream with selectors that match no stream, or with none, creates
\* exactly one stream (with a fresh id when none is given), adds it to the
\* repository and returns it; the repository grows by one and the streams it
\* held are unchanged.
C20_GetStreamCreatesOne ==
    (gets > 0 /\ NamedByLastGet = {}) =>
       LET before == last_get.before
           after == last_get.after
           created == after[Len(after)]
       IN /\ Len(after) = Len(before) + 1
          /\ SubSeq(after, 1, Len(before)) = before
          /\ last_get.returned = Len(after)
          /\ node_streams[DeployNode] = after
          /\ created.stream_alias = last_get.stream_alias
          /\ created.stream_id # None
          /\ last_get.stream_id # None => created.stream_id = last_get.stream_id
          /\ last_get.stream_id = None =>
                \A i \in 1..Len(before) :
                   created.stream_id \notin {before[i].stream_id, before[i].stream_alias}

C20_Witness ==
    /\ gets > 0
    /\ NamedByLastGet = {}
    /\ last_get.stream_id = None
    /\ Len(last_get.before) >= 1
    /\ Len(last_get.after) = Len(last_get.before) + 1

\* ---------------------------------------------------------------------------
\* Buffered inputs and the tasks that take them (runtime.py 54-70,
\* io_buffer.py 26-69, task_dispatcher.py 20-28).

\* The dispatcher loop is still turning: no execute_task has raised.
DispatcherRunning == dispatcher_pc # "failed" /\ worker.pc # "raised"

\* The tasks of o that will still take input: those on the queue, the one
\* taken by the worker that has not reached its swap or pop, and those a
\* call_operator is about to put.
TasksAhead(o) ==
    QueuedTasks(o)
    + (IF worker.op = o /\ worker.pc = "dispatch" THEN 1 ELSE 0)
    + PendingPuts(o, use_batching[o])

\* C31: no buffered input is stranded. While the dispatcher runs, a
\* non-empty buffer of a batching operator has a task ahead of it that will
\* swap it, and the buffer of a non-batching operator has at least one task
\* ahead per input it holds.
C31_NoInputStranded ==
    DispatcherRunning =>
       \A o \in Operators :
          IF use_batching[o]
          THEN input_buffer[o] # <<>> => TasksAhead(o) >= 1
          ELSE TasksAhead(o) >= Len(input_buffer[o])

\* An input was appended from the worker thread (a chained emit) and one
\* from the I/O loop, a swap has taken place, and a buffer holds input again.
C31_Witness ==
    /\ DispatcherRunning
    /\ \E k \in 1..Len(exec_log) : exec_log[k].swapped /\ exec_log[k].taken # <<>>
    /\ \E o \in Operators : input_buffer[o] # <<>> /\ worker.pc \notin {"idle"}
    /\ \E o \in Operators : Len(arrivals[o]) >= 2

\* C32: every task taken from the queue finds work. When execute_task is
\* about to take its input the operator's buffer is non-empty, no pop has
\* raised on an empty buffer and no swap has produced an empty batch.
C32_TaskFindsWork ==
    /\ worker.pc = "dispatch" => input_buffer[worker.op] # <<>>
    /\ \A k \in 1..Len(exec_log) :
          /\ exec_log[k].swapped => exec_log[k].taken # <<>>
          /\ exec_log[k].raised => exec_log[k].swapped

\* Both kinds of task have taken input: a pop of a non-batching operator and
\* a swap of a batching one, and a further task is about to take its input.
C32_Witness ==
    /\ \E k \in 1..Len(exec_log) :
          exec_log[k].swapped /\ ~use_batching[exec_log[k].op]
    /\ \E k \in 1..Len(exec_log) :
          exec_log[k].swapped /\ use_batching[exec_log[k].op]
    /\ worker.pc = "dispatch"

\* ---------------------------------------------------------------------------
\* QoS record bookkeeping (stats/qos_monitor.py 62-111, runtime.py 54-78).

RecordKey(r) == <<r.operator_id, r.source_stream_id, r.source_stream_sequence_no>>

\* Nothing is buffered, queued, executing or inside call_operator, and no
\* execution was cut short by a raising call.
AllInputsCompleted ==
    /\ DispatcherRunning
    /\ \A t \in Threads : stack[t] = <<>>
    /\ \A o \in Operators : input_buffer[o] = <<>>
    /\ task_queue = <<>>
    /\ worker.pc = "idle"

\* C33: at most one active record per key; once operator_result_received has
\* been processed for a key no record with that key is active, and when all
\* buffered inputs have completed the active set is empty.
C33_RecordBookkeeping ==
    /\ \A r1, r2 \in active_records : RecordKey(r1) = RecordKey(r2) => r1 = r2
    /\ \A r \in active_records :
          \A c \in completed_records : RecordKey(c) # RecordKey(r)
    /\ AllInputsCompleted => active_records = {}

\* ---------------------------------------------------------------------------
\* The subscriber set of a stream (stream_api.py 60-96, runtime.py 72-78,
\* io_buffer.py 71-82), checked under SpecSubscribers.

\* C34: a stream's subscriber set is never iterated by one thread while
\* another mutates it: every turn of emit's loop over the subscribers runs on
\* the I/O loop thread, which also runs every subscribe, so no iteration finds
\* the set changed.
C34_SubscribersOnIOLoop ==
    \A k \in 1..Len(subscriber_log) :
       /\ subscriber_log[k].thread = "io"
       /\ subscriber_log[k].ev # "changed"

\* ---------------------------------------------------------------------------
\* Subscriptions and the frames of an emit (stream_router.py 48-57,
\* protocols.py 293-307, stream_api.py 60-96), checked under SpecPublish.

\* The data_tuple frames the emit logged at position k of thread t's log has
\* sent to peer p.
FramesTo(t, k, p) ==
    Cardinality({ x \in 1..Len(emit_events[t]) :
       /\ emit_events[t][x].ev = "send"
       /\ emit_events[t][x].emit = emit_events[t][k].emit
       /\ PeerOf(emit_events[t][x].protocol) = p })

\* C35: after any sequence of subscribe requests and migrations every emit on
\* a stream sends exactly one data_tuple frame to each peer connection
\* subscribed to it and none to the others, however often and by whichever
\* call the connection was subscribed; and every subscribe request, also one
\* whose alias matched no stream, has left a stream that the alias selects
\* with the sender subscribed to it.
C35_OneFramePerSubscriber ==
    /\ \A t \in Threads : \A k \in 1..Len(emit_events[t]) :
          emit_events[t][k].ev = "emit" =>
             \A p \in SubscriberPeers :
                /\ FramesTo(t, k, p)
                      <= IF p \in emit_events[t][k].subscribed THEN 1 ELSE 0
                /\ EmitReturned(t, emit_events[t][k].emit) =>
                      FramesTo(t, k, p)
                         = IF p \in emit_events[t][k].subscribed THEN 1 ELSE 0
    /\ \A j \in 1..Len(subscriptions) : subscriptions[j].by = "subscribe" =>
          LET stream == node_streams[DeployNode][subscriptions[j].stream] IN
            /\ subscriptions[j].stream_alias \in {stream.stream_alias, stream.stream_id}
            /\ StreamDataSenderProtocol(DeployNode, subscriptions[j].peer)
                  \in stream.protocols

\* A peer subscribed twice to one stream, once by migrate_stream and once by
\* its own subscribe request, has been sent the frame of an emit on it.
C35_Witness ==
    /\ \E t \in Threads : \E k \in 1..Len(emit_events[t]), p \in SubscriberPeers :
          /\ emit_events[t][k].ev = "emit"
          /\ EmitReturned(t, emit_events[t][k].emit)
          /\ FramesTo(t, k, p) = 1
          /\ \E j1, j2 \in 1..Len(subscriptions) :
                /\ subscriptions[j1].by = "migrate_stream"
                /\ subscriptions[j2].by = "subscribe"
                /\ subscriptions[j1].peer = p /\ subscriptions[j2].peer = p
                /\ subscriptions[j1].stream = emit_events[t][k].stream
                /\ subscriptions[j2].stream = emit_events[t][k].stream
                /\ p \in emit_events[t][k].subscribed

\* ---------------------------------------------------------------------------
\* The archive a module sender sends (protocols.py 203-228, 158-188,
\* cluster_orchestrator.py 71-77), checked under SpecModules.

\* C36: every file frame sent after an accepted init_module_transfer carries
\* the archive of the module named in that request, so no node registers one
\* module's name with the archive of another: the archive a node has stored
\* for a module it holds is that module's.
C36_ArchiveOfNamedModule ==
    \A n \in Nodes : \A k \in 1..Len(apps[n]) :
       files[n][apps[n][k].zip_path] = apps[n][k].name

\* ---------------------------------------------------------------------------
\* Stream identity (stream_repository.py 17-30, stream_router.py 23-57,
\* stream_api.py 40-58), checked under SpecRepo.

\* C37: no two distinct streams of a node's repository share a stream_id and
\* no two share a non-null stream_alias, so every selector resolves to at
\* most one stream.
C37_StreamIdentityUnique ==
    LET strs == node_streams[DeployNode] IN
      /\ \A i, j \in 1..Len(strs) : i # j =>
            /\ strs[i].stream_id # strs[j].stream_id
            /\ strs[i].stream_alias # None =>
                  strs[i].stream_alias # strs[j].stream_alias
      /\ \A sel \in RepoIds \cup RepoAliases :
            sel # None => Cardinality(Matches(strs, sel)) <= 1

\* ---------------------------------------------------------------------------
\* Repeated deployment (cluster_orchestrator.py 89-119, stream_api.py 66-70,
\* runtime.py 33-52), checked under SpecRedeploy.

\* The forks of the stream at position i that lead to operator o.
ForksTo(i, o) == { f \in node_streams[DeployNode][i].operators : f[1] = o }

\* C38: deployment is idempotent with respect to wiring: when one deployment
\* has been created k >= 1 times and nothing else, every stream has at most
\* one (operator, output_stream) fork per operator, so an emit buffers its
\* tuple once for the operator.
C38_DeploymentIdempotent ==
    (/\ deployments # <<>>
     /\ \A j \in 1..Len(deployments) : deployments[j].name = deployments[1].name)
    => /\ \A i \in 1..Len(node_streams[DeployNode]) : \A o \in runtime_operators :
             Cardinality(ForksTo(i, o)) <= 1
       /\ \A t \in Threads : \A k \in 1..Len(emit_events[t]) :
             emit_events[t][k].ev = "emit" =>
                \A o \in runtime_operators :
                   Cardinality({ f \in emit_events[t][k].operators : f[1] = o }) <= 1

\* ---------------------------------------------------------------------------
\* Malformed object frames (protocols.py 42-81), checked under SpecMalformed.

\* C39: a deserialisation failure of one object frame drops only that
\* message: the failure is logged and the connection stays open, so the
\* frames that follow are still delivered.  Every exception of pickle.loads
\* is caught.
C39_BadFrameDropped ==
    \A k \in 1..Len(codec_errors) :
       codec_errors[k].error \notin {"struct.error", "UnicodeDecodeError"}
          => codec_errors[k].caught

\* ---------------------------------------------------------------------------
\* Dispatch of received objects (protocols.py 130-132), checked under
\* SpecDispatch.

\* C40: dispatch is by (op, presence of status): every received object is
\* handled by at most one sub-protocol, and an object whose op is unknown is
\* logged and ignored: no reply is sent and the connection stays open.
C40_DispatchByOpAndStatus ==
    /\ \A d \in Dirs :
          d[1] \in Nodes /\ HasMsg(d[1], d[2]) /\ Msg(d[1], d[2]).type = "o"
          => Cardinality(HandlersOf(d[1], d[2], Msg(d[1], d[2]))) <= 1
    /\ \A k \in 1..Len(dispatch_log) :
          /\ dispatch_log[k].logged
          /\ dispatch_log[k].replies = 0
          /\ ~dispatch_log[k].closed

=============================================================================
